---- MODULE Spec2Model ----
(***************************************************************************)
(* State-synchronisation core of the pixel canvas server.                  *)
(*                                                                         *)
(*   Part I   Cell Store + State Cache  (server/models/database.js and the *)
(*            canvas service that wraps it)              specification Spec *)
(*   Part II  Replay Guard (services/nonceStore.js) specification SpecNonce *)
(*                                                                         *)
(* The SQLite tables are modelled as values of the tables' rows; a         *)
(* better-sqlite3 db.transaction(fn) runs fn and commits, or, when fn or   *)
(* the commit throws, rolls every table back and rethrows.  JavaScript     *)
(* state written inside fn (the cache, placementsSincePrune) is not part   *)
(* of the database and is not rolled back.  Column placed_at (a clock      *)
(* reading no operation reads back) is not modelled.                       *)
(***************************************************************************)
EXTENDS Integers, Sequences, FiniteSets, TLC

(***************************************************************************)
(* Bounds of the model.                                                    *)
(***************************************************************************)
\* grid coordinates offered to the operations: 0..Width-1 x 0..Height-1
Width == 2
Height == 1
\* longest pixel list handed to placePixelsBatch / importCanvas
MaxBatch == 2
\* most work of a behaviour: rows appended to pixel_history and to
\* canvas_snapshots, plus calls that threw
MaxWork == 3
\* database.js:181-182 set 100000 and 500; scaled so that a prune happens
HISTORY_MAX_ENTRIES == 2
PRUNE_CHECK_INTERVAL == 2

NULL == "null"
ERASED == "ERASED"
\* two colours of config.canvas.palette
Colors == {"#ff0000", "#0000ff"}
\* wallet addresses (lower case), as routes and sockets pass them
Addrs == {"0xa"}
Writers == Addrs \cup {NULL}

XS == 0 .. (Width - 1)
YS == 0 .. (Height - 1)
Cells == [x : XS, y : YS, color : Colors]

RECURSIVE SeqsUpTo(_, _)
SeqsUpTo(S, n) ==
    IF n = 0 THEN {<<>>}
    ELSE LET shorter == SeqsUpTo(S, n - 1)
         IN shorter \cup {Append(s, e) : s \in {t \in shorter : Len(t) = n - 1}, e \in S}

PixelLists == SeqsUpTo(Cells, MaxBatch)

VARIABLES
    pixels,                 \* table pixels: set of rows, primary key (x, y)
    history,                \* table pixel_history: rows in id order
    seq,                    \* sqlite_sequence of pixel_history: last id given out
    users,                  \* table users: address -> pixel_count
    snapshots,              \* table canvas_snapshots: rows in id order
    cachePixels,            \* cache.pixels: a Map, entries in insertion order
    cacheCount,             \* cache.count
    placementsSincePrune,   \* module variable of database.js
    statsCache,             \* statsCache: the last getStats() result and when it was made
    ret,                    \* observer: the last call, its arguments and outcome
    faults,                 \* observer: number of calls so far that have thrown
    written,                \* observer: coordinates written and not erased since
    roundTrip               \* observer: progress of an export / clear / import

dbVars == <<pixels, history, seq, users, snapshots>>
jsVars == <<cachePixels, cacheCount, placementsSincePrune, statsCache>>
obsVars == <<ret, faults, written, roundTrip>>
storeVars == <<dbVars, jsVars, obsVars>>

VARIABLES
    now,                    \* Date.now(), the same clock on every instance and the backend
    store,                  \* per instance: the Map store, key -> time stored
    redisClient,            \* per instance: setRedisClient has been called
    redis,                  \* the shared backend: key -> time its record expires
    nextSweep,              \* per instance: when the cleanup interval fires next
    slots,                  \* checkAndUseNonce calls: in flight at the await, or returned
    started,                \* observer: number of calls begun
    accepted                \* observer: every acceptance {valid: true} so far

nonceVars == <<now, store, redisClient, redis, nextSweep, slots, started, accepted>>

VARIABLES
    socks,                  \* the sockets of one instance: wss.clients and each ws's fields
    connsByIP,              \* the Map connsByIP: ip -> set of sockets
    nextSock,               \* the next socket to connect
    nextBeat                \* when the heartbeat interval fires next

wsVars == <<socks, connsByIP, nextSock, nextBeat>>

VARIABLES
    instanceId,  \* global.__instanceId of every instance
    inbox,       \* the channel messages on their way to every instance's redisSub
    wsOpen,      \* the open local connections of every instance
    delivered,   \* observer: the sends, per instance, connection and broadcast() call
    published,   \* observer: the channel messages, per broadcast() call
    calls        \* observer: the broadcast() calls so far, with their instance

bcVars == <<instanceId, inbox, wsOpen, delivered, published, calls>>

VARIABLES
    dbInitialized   \* module variable of database.js

bootVars == <<dbInitialized>>

VARIABLES
    openMode,    \* config.openMode
    events,      \* observer: the broadcast() calls of the instance, in order
    reply        \* observer: what the last request's originator was sent

fanVars == <<openMode, events, reply>>

VARIABLES
    httpReq,     \* req: the request on its way through the middleware of POST /pixels
    httpRes,     \* res: the status and error code of the response, once one is sent
    chain        \* the middleware the request has reached

mwVars == <<httpReq, httpRes, chain>>

VARIABLES
    peerState,   \* readyState of the local connections, in the order of wss.clients
    sentTo,      \* observer: what the last request's broadcast() calls sent, per connection
    pubs,        \* observer: what they published on the channel
    failed       \* observer: the connection a send to which failed in the last request, or 0

sendVars == <<peerState, sentTo, pubs, failed>>

VARIABLES
    sibPixels,   \* cache.pixels of the sibling instance, a process of its own
    sibCount,    \* cache.count of the sibling instance
    sibInbox,    \* messages published on the channel that the sibling has yet to handle
    sibSent      \* observer: the messages the sibling passed to broadcastLocal

sibVars == <<sibPixels, sibCount, sibInbox, sibSent>>

\* the variables of the request handlers
evVars == <<fanVars, mwVars, sendVars, sibVars>>

\* the variables of the parts that follow Part IV
afterBcVars == <<bootVars, evVars>>

\* the variables of Parts III, IV and VI
hostVars == <<wsVars, bcVars, bootVars>>

\* the variables of the parts that follow Part III
afterWsVars == <<bcVars, afterBcVars>>

\* the variables of the parts that follow Part II
laterVars == <<wsVars, afterWsVars>>

(***************************************************************************)
(* Part I.  Prepared statements (database.js:132-146).                     *)
(***************************************************************************)
\* INSERT ... ON CONFLICT(x, y) DO UPDATE
setPixel(tbl, x, y, color, addr) ==
    {r \in tbl : ~(r.x = x /\ r.y = y)}
        \cup {[x |-> x, y |-> y, color |-> color, placed_by |-> addr]}

deletePixel(tbl, x, y) == {r \in tbl : ~(r.x = x /\ r.y = y)}

addHistory(h, id, x, y, color, addr) ==
    Append(h, [id |-> id, x |-> x, y |-> y, color |-> color, placed_by |-> addr])

upsertUser(u, addr) ==
    IF addr \in DOMAIN u THEN u
    ELSE [a \in DOMAIN u \cup {addr} |-> IF a = addr THEN 0 ELSE u[a]]

incUserPixels(u, addr, n) == [u EXCEPT ![addr] = @ + n]

pruneHistory_OffsetFromOne(h, n) ==
    IF Len(h) < n THEN h
    ELSE LET limit == h[Len(h) - n + 1].id
         IN SelectSeq(h, LAMBDA e : e.id > limit)

\* DELETE ... WHERE id <= (SELECT id ... ORDER BY id DESC LIMIT 1 OFFSET n)
pruneHistory(h, n) ==
    IF Len(h) <= n THEN h
    ELSE LET limit == h[Len(h) - n].id
         IN SelectSeq(h, LAMBDA e : e.id > limit)

(***************************************************************************)
(* The cache Map (database.js:13): keys are the strings `${x},${y}`.       *)
(***************************************************************************)
cacheKey(x, y) == ToString(x) \o "," \o ToString(y)

cacheHas(c, k) == \E i \in 1 .. Len(c) : c[i].k = k

cacheIndex(c, k) == CHOOSE i \in 1 .. Len(c) : c[i].k = k

\* Map.set: a present key keeps its place in the iteration order
cacheSet(c, k, v) ==
    IF cacheHas(c, k) THEN [c EXCEPT ![cacheIndex(c, k)] = [k |-> k, v |-> v]]
    ELSE Append(c, [k |-> k, v |-> v])

cacheDelete(c, k) == SelectSeq(c, LAMBDA e : e.k # k)

cacheEntry(x, y, color, addr) == [x |-> x, y |-> y, color |-> color, placed_by |-> addr]

\* what stands for JavaScript's null where a cache entry is expected
NoPixel == [x |-> -1, y |-> -1, color |-> NULL, placed_by |-> NULL]

\* databaseAPI.getPixel
getPixel(c, x, y) ==
    IF cacheHas(c, cacheKey(x, y)) THEN c[cacheIndex(c, cacheKey(x, y))].v ELSE NoPixel

\* databaseAPI.getAllPixels
getAllPixels(c) == [i \in 1 .. Len(c) |-> [x |-> c[i].v.x, y |-> c[i].v.y, color |-> c[i].v.color]]

getPixelCount == cacheCount

(***************************************************************************)
(* statsCache (database.js:14): data is null until getStats() fills it.    *)
(***************************************************************************)
\* what stands for null where a getStats() result is expected
NoStats == [total_pixels |-> -1, total_users |-> -1, total_placements |-> -1]

NoStatsCache == [data |-> NoStats, ts |-> 0]

invalidate_Never(sc) == sc

\* statsCache.data = null
invalidate(sc) == [sc EXCEPT !.data = NoStats]

(***************************************************************************)
(* maybePruneHistory (database.js:247-259): the new placementsSincePrune   *)
(* and the new pixel_history.                                              *)
(***************************************************************************)
maybePruneHistory(p, h) ==
    IF p + 1 < PRUNE_CHECK_INTERVAL THEN [psp |-> p + 1, history |-> h]
    ELSE [psp |-> 0,
          history |-> IF Len(h) > HISTORY_MAX_ENTRIES
                      THEN pruneHistory(h, HISTORY_MAX_ENTRIES) ELSE h]

(***************************************************************************)
(* Observer records.                                                       *)
(***************************************************************************)
\* op, ok, args: the call and whether it returned; repeat: it is a placePixel
\* that returned and repeats the arguments of the call before it, which was a
\* placePixel that returned; logBefore, seqBefore, ucBefore: the log's size,
\* its last id and the caller's pixel_count when the call began
NoRet ==
    [op |-> "none", ok |-> TRUE, args |-> <<>>, repeat |-> FALSE,
     logBefore |-> 0, seqBefore |-> 0, ucBefore |-> 0]

Ret(op, ok, args) ==
    [op |-> op, ok |-> ok, args |-> args, repeat |-> FALSE,
     logBefore |-> Len(history), seqBefore |-> seq, ucBefore |-> 0]

IdleTrip == [phase |-> "idle", E |-> <<>>]

\* rows appended so far to the two append-only tables, plus calls that threw
work == seq + Len(snapshots) + faults

userCount(u, addr) == IF addr \in DOMAIN u THEN u[addr] ELSE 0

(***************************************************************************)
(* placePixel transaction (database.js:199-209).                           *)
(*   fail = "none"  every statement and the commit succeed                 *)
(*   fail = "stmt"  one of the statements of lines 200-202 throws          *)
(*   fail = "late"  a statement of maybePruneHistory or the commit throws  *)
(***************************************************************************)
placePixelCount_NoHasCheck(c, cnt, x, y) == cnt + 1

placePixelCount(c, cnt, x, y) == IF ~cacheHas(c, cacheKey(x, y)) THEN cnt + 1 ELSE cnt

placePixelUsers(u, addr) ==
    IF addr # NULL THEN incUserPixels(upsertUser(u, addr), addr, 1) ELSE u

placePixelTx(x, y, color, addr, fail) ==
    /\ LET pr == maybePruneHistory(placementsSincePrune,
                                   addHistory(history, seq + 1, x, y, color, addr))
       IN
       /\ IF fail = "none"
          THEN /\ pixels' = setPixel(pixels, x, y, color, addr)
               /\ history' = pr.history
               /\ seq' = seq + 1
               /\ users' = placePixelUsers(users, addr)
               /\ written' = written \cup {<<x, y>>}
          ELSE UNCHANGED <<pixels, history, seq, users, written>>
       /\ IF fail = "stmt"
          THEN UNCHANGED jsVars
          ELSE /\ cacheCount' = placePixelCount(cachePixels, cacheCount, x, y)
               /\ cachePixels' = cacheSet(cachePixels, cacheKey(x, y), cacheEntry(x, y, color, addr))
               /\ statsCache' = invalidate(statsCache)
               /\ placementsSincePrune' = pr.psp
    /\ ret' = [Ret("placePixel", fail = "none", <<x, y, color, addr>>)
                 EXCEPT !.ucBefore = userCount(users, addr),
                        !.repeat = /\ fail = "none"
                                   /\ ret.op = "placePixel" /\ ret.ok
                                   /\ ret.args = <<x, y, color, addr>>]
    /\ faults' = faults + (IF fail = "none" THEN 0 ELSE 1)
    /\ roundTrip' = IdleTrip
    /\ UNCHANGED <<snapshots, nonceVars, hostVars>>

\* databaseAPI.placePixel (database.js:281), within the work of a behaviour
PlacePixel(x, y, color, addr, fail) ==
    /\ work < MaxWork
    /\ placePixelTx(x, y, color, addr, fail)

(***************************************************************************)
(* placeBatch transaction (database.js:211-224).  placeBatchLoop is the    *)
(* state after the first n iterations of the for loop of lines 213-219.    *)
(*   failAt = 0           nothing throws                                   *)
(*   failAt = k in 1..N   setPixel or addHistory of cell k throws          *)
(*   failAt = N + 1       the users statements of line 220 throw           *)
(*   failAt = N + 2       maybePruneHistory or the commit throws           *)
(***************************************************************************)
placeBatchCell_CountsEveryCell(st, p, addr) ==
    [pixels |-> setPixel(st.pixels, p.x, p.y, p.color, addr),
     history |-> addHistory(st.history, st.seq + 1, p.x, p.y, p.color, addr),
     seq |-> st.seq + 1,
     cache |-> cacheSet(st.cache, cacheKey(p.x, p.y), cacheEntry(p.x, p.y, p.color, addr)),
     newCount |-> st.newCount + 1]

placeBatchCell(st, p, addr) ==
    [pixels |-> setPixel(st.pixels, p.x, p.y, p.color, addr),
     history |-> addHistory(st.history, st.seq + 1, p.x, p.y, p.color, addr),
     seq |-> st.seq + 1,
     cache |-> cacheSet(st.cache, cacheKey(p.x, p.y), cacheEntry(p.x, p.y, p.color, addr)),
     newCount |-> IF ~cacheHas(st.cache, cacheKey(p.x, p.y)) THEN st.newCount + 1 ELSE st.newCount]

RECURSIVE placeBatchLoop(_, _, _, _)
placeBatchLoop(st, list, addr, n) ==
    IF n = 0 THEN st
    ELSE placeBatchCell(placeBatchLoop(st, list, addr, n - 1), list[n], addr)

placeBatchUsers(u, list, addr) ==
    IF addr # NULL THEN incUserPixels(upsertUser(u, addr), addr, Len(list)) ELSE u

coordsOf(list) == {<<list[i].x, list[i].y>> : i \in 1 .. Len(list)}

\* databaseAPI.placePixelsBatch (database.js:282): an empty list is a no-op
placePixelsBatch(list, addr, failAt) ==
    /\ failAt \in 0 .. (IF list = <<>> THEN 0 ELSE Len(list) + 2)
    /\ LET N == Len(list)
           done == IF failAt \in 1 .. N THEN failAt - 1 ELSE N
           st == placeBatchLoop([pixels |-> pixels, history |-> history, seq |-> seq,
                                 cache |-> cachePixels, newCount |-> 0], list, addr, done)
           pr == maybePruneHistory(placementsSincePrune, st.history)
       IN
       IF list = <<>> THEN UNCHANGED <<dbVars, jsVars, written>>
       ELSE
       /\ IF failAt = 0
          THEN /\ pixels' = st.pixels
               /\ history' = pr.history
               /\ seq' = st.seq
               /\ users' = placeBatchUsers(users, list, addr)
               /\ written' = written \cup coordsOf(list)
          ELSE UNCHANGED <<pixels, history, seq, users, written>>
       /\ cachePixels' = st.cache
       /\ IF failAt \in {0, N + 2}
          THEN /\ cacheCount' = cacheCount + st.newCount
               /\ statsCache' = invalidate(statsCache)
               /\ placementsSincePrune' = pr.psp
          ELSE UNCHANGED <<cacheCount, placementsSincePrune, statsCache>>
    /\ ret' = [Ret("placeBatch", failAt = 0, <<>>)
                 EXCEPT !.ucBefore = userCount(users, addr)]
    /\ faults' = faults + (IF failAt = 0 THEN 0 ELSE 1)
    /\ roundTrip' = IdleTrip
    /\ UNCHANGED <<snapshots, nonceVars, hostVars>>

\* placePixelsBatch within the work of a behaviour
PlaceBatch(list, addr, failAt) ==
    /\ work + Len(list) <= MaxWork
    /\ list = <<>> => work < MaxWork
    /\ placePixelsBatch(list, addr, failAt)

(***************************************************************************)
(* erase transaction (database.js:226-232).                                *)
(*   fail = "stmt"  deletePixel or addHistory throws                       *)
(*   fail = "late"  the commit throws                                      *)
(***************************************************************************)
eraseCount(c, cnt, x, y) == IF cacheHas(c, cacheKey(x, y)) THEN cnt - 1 ELSE cnt

eraseTx(x, y, admin, fail) ==
    /\ IF fail = "none"
       THEN /\ pixels' = deletePixel(pixels, x, y)
            /\ history' = addHistory(history, seq + 1, x, y, ERASED, admin)
            /\ seq' = seq + 1
            /\ written' = written \ {<<x, y>>}
       ELSE UNCHANGED <<pixels, history, seq, written>>
    /\ IF fail = "stmt"
       THEN UNCHANGED <<cachePixels, cacheCount, statsCache>>
       ELSE /\ cacheCount' = eraseCount(cachePixels, cacheCount, x, y)
            /\ cachePixels' = cacheDelete(cachePixels, cacheKey(x, y))
            /\ statsCache' = invalidate(statsCache)
    /\ ret' = Ret("erasePixel", fail = "none", <<>>)
    /\ faults' = faults + (IF fail = "none" THEN 0 ELSE 1)
    /\ roundTrip' = IdleTrip
    /\ UNCHANGED <<users, snapshots, placementsSincePrune, nonceVars, hostVars>>

\* databaseAPI.erasePixel (database.js:283), within the work of a behaviour
ErasePixel(x, y, admin, fail) ==
    /\ work < MaxWork
    /\ eraseTx(x, y, admin, fail)

(***************************************************************************)
(* databaseAPI.saveSnapshot (database.js:304-308): the row's pixel list.   *)
(***************************************************************************)
saveSnapshot(snaps, c) == Append(snaps, getAllPixels(c))

(***************************************************************************)
(* canvasService.clearCanvas (backup.js:133-137): saveSnapshot, then       *)
(* databaseAPI.clearCanvas (database.js:302).                              *)
(*   fail = "snapshot"  the INSERT into canvas_snapshots throws            *)
(*   fail = "clear"     DELETE FROM pixels throws                          *)
(***************************************************************************)
ClearCanvas(fail) ==
    /\ work < MaxWork
    /\ snapshots' = IF fail = "snapshot" THEN snapshots
                    ELSE saveSnapshot(snapshots, cachePixels)
    /\ IF fail = "none"
       THEN /\ pixels' = {}
            /\ cachePixels' = <<>>
            /\ cacheCount' = 0
            /\ statsCache' = invalidate(statsCache)
            /\ written' = {}
       ELSE UNCHANGED <<pixels, cachePixels, cacheCount, statsCache, written>>
    /\ ret' = Ret("clearCanvas", fail = "none", <<>>)
    /\ faults' = faults + (IF fail = "none" THEN 0 ELSE 1)
    /\ roundTrip' = IF fail = "none" /\ roundTrip.phase = "exported"
                    THEN [roundTrip EXCEPT !.phase = "cleared"] ELSE IdleTrip
    /\ UNCHANGED <<history, seq, users, placementsSincePrune, nonceVars, hostVars>>

(***************************************************************************)
(* bulkImport transaction (database.js:234-241): bulkImportLoop is the     *)
(* state after the first n iterations of the for loop.                     *)
(***************************************************************************)
bulkImportCell_NoCount(st, p) ==
    [pixels |-> setPixel(st.pixels, p.x, p.y, p.color, NULL),
     count |-> st.count,
     cache |-> cacheSet(st.cache, cacheKey(p.x, p.y), cacheEntry(p.x, p.y, p.color, NULL))]

bulkImportCell(st, p) ==
    [pixels |-> setPixel(st.pixels, p.x, p.y, p.color, NULL),
     count |-> IF ~cacheHas(st.cache, cacheKey(p.x, p.y)) THEN st.count + 1 ELSE st.count,
     cache |-> cacheSet(st.cache, cacheKey(p.x, p.y), cacheEntry(p.x, p.y, p.color, NULL))]

RECURSIVE bulkImportLoop(_, _, _)
bulkImportLoop(st, list, n) ==
    IF n = 0 THEN st ELSE bulkImportCell(bulkImportLoop(st, list, n - 1), list[n])

(***************************************************************************)
(* canvasService.importCanvas (backup.js:139-143): saveSnapshot, then      *)
(* databaseAPI.bulkImport (database.js:310-313).                           *)
(*   failAt = 0           nothing throws                                   *)
(*   failAt = k in 1..N   setPixel of cell k throws                        *)
(*   failAt = N + 1       the commit throws                                *)
(*   failAt = N + 2       saveSnapshot throws                              *)
(***************************************************************************)
ImportCanvas(list, failAt) ==
    /\ work < MaxWork
    /\ failAt \in 0 .. Len(list) + 2
    /\ LET N == Len(list)
           done == IF failAt \in 1 .. N THEN failAt - 1 ELSE N
           st == bulkImportLoop([pixels |-> pixels, cache |-> cachePixels,
                                 count |-> cacheCount], list, done)
       IN
       IF failAt = N + 2
       THEN UNCHANGED <<pixels, snapshots, cachePixels, cacheCount, statsCache, written>>
       ELSE
       /\ snapshots' = saveSnapshot(snapshots, cachePixels)
       /\ IF failAt = 0
          THEN /\ pixels' = st.pixels
               /\ statsCache' = invalidate(statsCache)
               /\ written' = written \cup coordsOf(list)
          ELSE UNCHANGED <<pixels, statsCache, written>>
       /\ cachePixels' = st.cache
       /\ cacheCount' = st.count
    /\ ret' = Ret("importCanvas", failAt = 0, <<>>)
    /\ faults' = faults + (IF failAt = 0 THEN 0 ELSE 1)
    /\ roundTrip' = IF failAt = 0 /\ roundTrip.phase = "cleared" /\ list = roundTrip.E
                    THEN [roundTrip EXCEPT !.phase = "imported"] ELSE IdleTrip
    /\ UNCHANGED <<history, seq, users, placementsSincePrune, nonceVars, hostVars>>

(***************************************************************************)
(* canvasService.exportCanvas (backup.js:117-119): the caller keeps the    *)
(* pixel list E it was handed.                                             *)
(***************************************************************************)
ExportCanvas ==
    /\ roundTrip' = [phase |-> "exported", E |-> getAllPixels(cachePixels)]
    /\ ret' = Ret("exportCanvas", TRUE, <<>>)
    /\ UNCHANGED <<dbVars, jsVars, faults, written, nonceVars, hostVars>>

(***************************************************************************)
(* Part II.  The replay guard (nonceStore): checkAndUseNonce over a local  *)
(* Map per instance and an optional shared backend, with the clock, the    *)
(* backend's failures and the cleanup interval as actions.                 *)
(***************************************************************************)

NumInstances == 2
MaxCalls == 2
MaxTicks == 4
Epoch == 900000

TTL == 10 * 60 * 1000
MAX_SKEW == 5 * 60 * 1000
SWEEP_INTERVAL == 10 * 60 * 1000

\* The clock is read once per validity window.
StepMs == MAX_SKEW

Instances == 1 .. NumInstances
Slots == 1 .. MaxCalls
MaxNow == Epoch + MaxTicks * StepMs

\* Strings are sequences of characters, so that toLowerCase, parseInt and
\* toString do their work on them.
DigitChars == <<"0", "1", "2", "3", "4", "5", "6", "7", "8", "9">>

isDigit(ch) == \E d \in 1 .. 10 : DigitChars[d] = ch

digitValue(ch) == (CHOOSE d \in 1 .. 10 : DigitChars[d] = ch) - 1

RECURSIVE natToString(_)
natToString(n) ==
    IF n < 10 THEN <<DigitChars[n + 1]>>
    ELSE Append(natToString(n \div 10), DigitChars[(n % 10) + 1])

toString(n) == IF n < 0 THEN <<"-">> \o natToString(0 - n) ELSE natToString(n)

NaN == [nan |-> TRUE, val |-> 0]

isNaN(v) == v.nan

RECURSIVE parseDigits(_, _, _, _)
parseDigits(s, i, acc, any) ==
    IF i > Len(s) \/ ~isDigit(s[i])
    THEN IF any THEN [nan |-> FALSE, val |-> acc] ELSE NaN
    ELSE parseDigits(s, i + 1, acc * 10 + digitValue(s[i]), TRUE)

RECURSIVE skipSpace(_, _)
skipSpace(s, i) == IF i <= Len(s) /\ s[i] = " " THEN skipSpace(s, i + 1) ELSE i

\* parseInt(timestamp, 10): white space, a sign, the longest run of digits.
parseInt(s) ==
    LET b == skipSpace(s, 1)
        signed == b <= Len(s) /\ s[b] \in {"-", "+"}
        r == parseDigits(s, IF signed THEN b + 1 ELSE b, 0, FALSE)
    IN  IF isNaN(r) THEN NaN
        ELSE IF signed /\ s[b] = "-" THEN [nan |-> FALSE, val |-> 0 - r.val]
        ELSE r

abs(n) == IF n < 0 THEN 0 - n ELSE n

lowerChar(ch) ==
    CASE ch = "A" -> "a"
      [] ch = "B" -> "b"
      [] OTHER -> ch

toLowerCase(s) == [i \in 1 .. Len(s) |-> lowerChar(s[i])]

key(addr, nonce) ==
    <<"n", "o", "n", "c", "e", ":">> \o toLowerCase(addr) \o <<":">> \o nonce

\* The inputs of the calls.
Addresses == {<<"0", "x", "A">>, <<"0", "x", "a">>, <<"0", "x", "B">>}

\* The (address, nonce) pairs presented: one identity in two spellings, a
\* second identity with the same nonce, and a second nonce.
Pairs ==
    {<<a, <<"n", "1">>>> : a \in Addresses} \cup {<<<<"0", "x", "A">>, <<"n", "2">>>>}

\* The timestamps presented at time t: on and beyond both edges of the
\* window, with white space and trailing text, and without a number.
Timestamps(t) ==
    {toString(t - 2 * StepMs), toString(t - StepMs), toString(t + 2 * StepMs),
     <<" ">> \o toString(t + StepMs) \o <<"m", "s">>, <<>>, <<"x">>, <<"-", "1">>}

EmptyMap == [k \in {} |-> 0]

NoTs == [nan |-> TRUE, val |-> 0]

IdleSlot ==
    [pc |-> "idle", inst |-> 0, address |-> <<>>, k |-> <<>>, ts |-> NoTs,
     now0 |-> 0, res |-> "none", via |-> "none",
     overlap |-> {}]

\* A call that has returned: its result and which table decided.
Returned(c, res, via) ==
    [c EXCEPT !.pc = "done", !.res = res, !.via = via, !.ts = NoTs, !.now0 = 0]

Acceptance(s, c, via) ==
    [call |-> s, k |-> c.k, ts |-> c.ts.val, at |-> now, inst |-> c.inst, via |-> via]

\* if (store.has(k)) return nonce_reused; store.set(k, now); return valid
storeHas(st, k) == k \in DOMAIN st

storeSet(st, k, t) == IF storeHas(st, k) THEN [st EXCEPT ![k] = t] ELSE st @@ (k :> t)

localResult_FailClosed(st, k) == "nonce_reused"

localResult(st, k) == IF storeHas(st, k) THEN "nonce_reused" ELSE "valid"

localStore_Refreshes(st, k, t) == storeSet(st, k, t)

localStore(st, k, t) == IF storeHas(st, k) THEN st ELSE storeSet(st, k, t)

\* isNaN(ts) || Math.abs(now - ts) > 5 * 60 * 1000
expired_Strict(ts, t) == isNaN(ts) \/ abs(t - ts.val) >= MAX_SKEW

expired(ts, t) == isNaN(ts) \/ abs(t - ts.val) > MAX_SKEW

\* The backend's SET k v PX TTL NX: a record lives until its expiry has passed.
redisLive_Never(r, k, t) == FALSE

redisLive(r, k, t) == k \in DOMAIN r /\ ~(t > r[k])

redisExpiry_Short(t) == t + MAX_SKEW

redisExpiry(t) == t + TTL

redisSetNX(r, k, t) ==
    IF redisLive(r, k, t) THEN r
    ELSE IF k \in DOMAIN r THEN [r EXCEPT ![k] = redisExpiry(t)]
    ELSE r @@ (k :> redisExpiry(t))

redisReply(r, k, t) == IF redisLive(r, k, t) THEN "nil" ELSE "OK"

\* The cleanup interval of every instance has run if it is due: the callback
\* runs at its time, ahead of the calls that arrive at that time.
sweptOnTime == \A i \in Instances : now < nextSweep[i]

awaiting(k) == {s \in Slots : slots[s].pc = "await" /\ slots[s].k = k}

\* checkAndUseNonce up to its first return or to the await on redisClient.set
CheckAndUseNonce(s, i, address, nonce, timestamp) ==
    /\ started < MaxCalls
    /\ s = started + 1
    /\ sweptOnTime
    /\ started' = started + 1
    /\ LET k == key(address, nonce)
           ts == parseInt(timestamp)
           c == [IdleSlot EXCEPT !.inst = i, !.address = address, !.k = k,
                                 !.ts = ts, !.now0 = now]
       IN  IF expired(ts, now)
           THEN /\ slots' = [slots EXCEPT ![s] = Returned(c, "expired_timestamp", "none")]
                /\ UNCHANGED <<store, accepted>>
           ELSE IF redisClient[i]
           THEN /\ slots' = [t \in Slots |->
                               IF t = s THEN [c EXCEPT !.pc = "await",
                                                       !.overlap = awaiting(k)]
                               ELSE IF t \in awaiting(k)
                                    THEN [slots[t] EXCEPT !.overlap = @ \cup {s}]
                                    ELSE slots[t]]
                /\ UNCHANGED <<store, accepted>>
           ELSE /\ slots' = [slots EXCEPT
                                ![s] = Returned(c, localResult(store[i], k), "local")]
                /\ store' = [store EXCEPT ![i] = localStore(@, k, now)]
                /\ accepted' = IF localResult(store[i], k) = "valid"
                               THEN accepted \cup {Acceptance(s, c, "local")}
                               ELSE accepted
    /\ UNCHANGED <<now, redisClient, redis, nextSweep, storeVars, laterVars>>

\* The await returns with the backend's answer, which decides.
RedisReplies(s) ==
    /\ slots[s].pc = "await"
    /\ sweptOnTime
    /\ LET c == slots[s] IN
       /\ redis' = redisSetNX(redis, c.k, now)
       /\ slots' = [slots EXCEPT ![s] =
             Returned(c, IF redisReply(redis, c.k, now) = "OK"
                         THEN "valid" ELSE "nonce_reused", "redis")]
       /\ accepted' = IF redisReply(redis, c.k, now) = "OK"
                      THEN accepted \cup {Acceptance(s, c, "redis")}
                      ELSE accepted
    /\ UNCHANGED <<now, store, redisClient, nextSweep, started, storeVars, laterVars>>

\* The await throws (the backend is down or unreachable): the catch logs and
\* the call falls through to the local Map.
RedisThrows(s) ==
    /\ slots[s].pc = "await"
    /\ sweptOnTime
    /\ LET c == slots[s] IN
       /\ slots' = [slots EXCEPT ![s] =
             Returned(c, localResult(store[c.inst], c.k), "fallback")]
       /\ store' = [store EXCEPT ![c.inst] = localStore(@, c.k, c.now0)]
       /\ accepted' = IF localResult(store[c.inst], c.k) = "valid"
                      THEN accepted \cup {Acceptance(s, c, "fallback")}
                      ELSE accepted
    /\ UNCHANGED <<now, redis, redisClient, nextSweep, started, storeVars, laterVars>>

\* setRedisClient(client): a deployment with the shared backend enabled calls
\* it on every instance at start, before any call is served.
SetRedisClient ==
    /\ started = 0
    /\ \A i \in Instances : ~redisClient[i]
    /\ redisClient' = [i \in Instances |-> TRUE]
    /\ UNCHANGED <<now, store, redis, nextSweep, slots, started, accepted, storeVars, laterVars>>

\* for (const [k, ts] of store) if (now - ts > TTL) store.delete(k)
sweepKeeps_Eager(st, t) == {k \in DOMAIN st : ~(t - st[k] >= MAX_SKEW)}

sweepKeeps(st, t) == {k \in DOMAIN st : ~(t - st[k] > TTL)}

Sweep(i) ==
    /\ now >= nextSweep[i]
    /\ store' = [store EXCEPT ![i] = [k \in sweepKeeps(@, now) |-> @[k]]]
    /\ nextSweep' = [nextSweep EXCEPT ![i] = @ + SWEEP_INTERVAL]
    /\ UNCHANGED <<now, redisClient, redis, slots, started, accepted, storeVars, laterVars>>

\* The clock moves on by StepMs; an interval that is due has fired by then and
\* a pending backend call has returned or thrown.
Tick ==
    /\ now + StepMs <= MaxNow
    /\ sweptOnTime
    /\ \A s \in Slots : slots[s].pc # "await"
    /\ now' = now + StepMs
    /\ UNCHANGED <<store, redisClient, redis, nextSweep, slots, started, accepted, storeVars, laterVars>>

NonceInit ==
    /\ now = Epoch
    /\ store = [i \in Instances |-> EmptyMap]
    /\ redisClient = [i \in Instances |-> FALSE]
    /\ redis = EmptyMap
    /\ nextSweep = [i \in Instances |-> Epoch + SWEEP_INTERVAL]
    /\ slots = [s \in Slots |-> IdleSlot]
    /\ started = 0
    /\ accepted = {}

NonceNext ==
    \/ \E s \in Slots, i \in Instances, p \in Pairs :
          \E timestamp \in Timestamps(now) :
              CheckAndUseNonce(s, i, p[1], p[2], timestamp)
    \/ \E s \in Slots : RedisReplies(s)
    \/ \E s \in Slots : RedisThrows(s)
    \/ SetRedisClient
    \/ \E i \in Instances : Sweep(i)
    \/ Tick

(***************************************************************************)
(* Part III.  The WebSocket server of one instance: admission under the    *)
(* two caps, the message, pong and close handlers, and the heartbeat.      *)
(***************************************************************************)

\* WS_MAX_CONNECTIONS_PER_IP and WS_MAX_TOTAL_CONNECTIONS (defaults 10 and
\* 10000), scaled so that both caps are met
MAX_PER_IP == 2
MAX_TOTAL == 5
\* connection attempts of a behaviour
MaxSockets == 5
\* connection attempts of a behaviour in which the clock runs
BeatSockets == 1
\* heartbeat ticks of a behaviour in which the clock runs
MaxBeats == 4

HEARTBEAT_INTERVAL == 25000
IDLE_LIMIT == 60000

\* The clock is read every fifth of a heartbeat interval.
WsStepMs == HEARTBEAT_INTERVAL \div 5
WsMaxNow == Epoch + MaxBeats * HEARTBEAT_INTERVAL

Sockets == 1 .. MaxSockets

\* the variables of Part II but the clock
nonceRest == <<store, redisClient, redis, nextSweep, slots, started, accepted>>

\* An upgrade request: the x-forwarded-for header as the list of its
\* comma-separated entries with their leading blanks (none when the header is
\* absent), and the peer address.
XffEntry(blanks, text) == [blanks |-> blanks, text |-> text]

Requests ==
    {[xff |-> <<>>, remote |-> "A"],
     [xff |-> <<>>, remote |-> "B"],
     [xff |-> <<XffEntry(1, "A"), XffEntry(0, "B")>>, remote |-> "B"],
     [xff |-> <<XffEntry(0, "")>>, remote |-> "B"]}

trim(entry) == entry.text

\* req.headers['x-forwarded-for']?.split(',')[0]?.trim() || req.socket.remoteAddress
clientIP(req) ==
    IF Len(req.xff) > 0 /\ trim(req.xff[1]) # ""
    THEN trim(req.xff[1]) ELSE req.remote

\* The token of the query string: absent, one that jwt.verify rejects, or
\* one it accepts with its payload.
Tokens == {NULL, "bad", "good"}

NoUser == [address |-> NULL, isAuthorized |-> FALSE, isAdmin |-> FALSE]

jwtVerify(token) ==
    IF token = "good"
    THEN [ok |-> TRUE, user |-> [address |-> "0xa", isAuthorized |-> TRUE, isAdmin |-> FALSE]]
    ELSE [ok |-> FALSE, user |-> NoUser]

\* A socket.  state: "none" before it connects, then the ws readyState
\* "open" or "closing", and "closed" once its close event has been emitted.
\* listening: the handlers of lines 95-120 are registered.  stamped: isAlive
\* and lastActivity have been assigned (both are undefined before).
\* reason: the reason of the server's close, or "terminated".
\* Observers: quiet (no message and no pong since it was admitted),
\* admittedAt, missed (the number of probes sent since the last pong),
\* verified (jwt.verify was called on its token), welcomed (it was sent the
\* 'welcome' message).
NoSock ==
    [state |-> "none", ip |-> NULL, listening |-> FALSE, stamped |-> FALSE,
     isAlive |-> FALSE, lastActivity |-> 0, user |-> NoUser, reason |-> "none",
     quiet |-> TRUE, admittedAt |-> 0, missed |-> 0,
     verified |-> FALSE, welcomed |-> FALSE]

ClosedSock == [NoSock EXCEPT !.state = "closed"]

\* wss.clients: ws adds a socket before it emits 'connection' and removes it
\* when the socket's close event is emitted.
clients == {s \in Sockets : socks[s].state \in {"open", "closing"}}

ipSize(m, ip) == IF ip \in DOMAIN m THEN Cardinality(m[ip]) ELSE 0

ipAdd(m, ip, s) ==
    IF ip \in DOMAIN m THEN [m EXCEPT ![ip] = @ \cup {s}] ELSE m @@ (ip :> {s})

ipDelete_KeepsSocket(m, ip, s) == m

\* connsByIP.get(ip)?.delete(ws)
ipDelete(m, ip, s) == IF ip \in DOMAIN m THEN [m EXCEPT ![ip] = @ \ {s}] ELSE m

\* if (!connsByIP.get(ip)?.size) connsByIP.delete(ip)
ipDrop(m, ip) ==
    IF ipSize(m, ip) = 0 THEN [i \in DOMAIN m \ {ip} |-> m[i]] ELSE m

canConnect_PerIpOff(size, held) ==
    IF size >= MAX_TOTAL THEN "Server full"
    ELSE IF held > MAX_PER_IP THEN "Too many connections"
    ELSE "ok"

\* canConnect(ip), given wss.clients.size and connsByIP.get(ip)?.size || 0
canConnect(size, held) ==
    IF size >= MAX_TOTAL THEN "Server full"
    ELSE IF held >= MAX_PER_IP THEN "Too many connections"
    ELSE "ok"

\* wss.on('connection'): the socket is in wss.clients when the handler runs.
Connect(req, token) ==
    /\ nextSock <= MaxSockets
    /\ LET s == nextSock
           ip == clientIP(req)
           check == canConnect(Cardinality(clients) + 1, ipSize(connsByIP, ip))
           d == jwtVerify(token)
       IN  IF check # "ok"
           THEN /\ socks' = [socks EXCEPT ![s] =
                               [NoSock EXCEPT !.state = "closing", !.reason = check]]
                /\ UNCHANGED connsByIP
           ELSE IF token # NULL /\ ~d.ok
           THEN /\ socks' = [socks EXCEPT ![s] =
                               [NoSock EXCEPT !.state = "closing", !.ip = ip,
                                              !.reason = "Invalid token",
                                              !.verified = TRUE]]
                /\ connsByIP' = ipDelete(ipAdd(connsByIP, ip, s), ip, s)
           ELSE /\ socks' = [socks EXCEPT ![s] =
                               [NoSock EXCEPT !.state = "open", !.ip = ip,
                                              !.listening = TRUE, !.stamped = TRUE,
                                              !.isAlive = TRUE, !.lastActivity = now,
                                              !.user = IF token # NULL THEN d.user ELSE NoUser,
                                              !.admittedAt = now,
                                              !.verified = (token # NULL),
                                              !.welcomed = TRUE]]
                /\ connsByIP' = ipAdd(connsByIP, ip, s)
    /\ nextSock' = nextSock + 1
    /\ UNCHANGED <<nextBeat, now, storeVars>>
    /\ UNCHANGED <<nonceRest, afterWsVars>>

\* The close event of a socket: the peer went away, or the close the server
\* began has completed.  ws.on('close') runs if it was registered.
CloseEvent(s) ==
    /\ socks[s].state \in {"open", "closing"}
    /\ socks' = [socks EXCEPT ![s] = ClosedSock]
    /\ connsByIP' = IF socks[s].listening
                    THEN ipDrop(ipDelete(connsByIP, socks[s].ip, s), socks[s].ip)
                    ELSE connsByIP
    /\ UNCHANGED <<nextSock, nextBeat, now, storeVars>>
    /\ UNCHANGED <<nonceRest, afterWsVars>>

\* A text frame: well-formed JSON or not, and the value it denotes.
JsonNull == [kind |-> "null", type |-> NULL]

JsonNumber == [kind |-> "number", type |-> NULL]

JsonObject(type) == [kind |-> "object", type |-> type]

Raw(wellFormed, value) == [wellFormed |-> wellFormed, value |-> value]

RawMessages ==
    {Raw(FALSE, JsonNull), Raw(TRUE, JsonNull), Raw(TRUE, JsonNumber),
     Raw(TRUE, JsonObject("ping")), Raw(TRUE, JsonObject("nope"))}

\* const { type, data } = JSON.parse(raw.toString()): JSON.parse throws on
\* text that is not JSON, the destructuring throws on null.
parsesToFields(raw) == raw.wellFormed /\ raw.value.kind # "null"

\* ws.on('message') for the frames that reach no pixel handler: a ping is
\* answered with a pong message, any other type is ignored.
Message(s, raw) ==
    /\ socks[s].state = "open"
    /\ socks[s].listening
    /\ socks' = [socks EXCEPT ![s] =
                    IF parsesToFields(raw)
                    THEN [@ EXCEPT !.isAlive = TRUE, !.lastActivity = now, !.quiet = FALSE]
                    ELSE [@ EXCEPT !.quiet = FALSE]]
    /\ UNCHANGED <<connsByIP, nextSock, nextBeat, now, storeVars>>
    /\ UNCHANGED <<nonceRest, afterWsVars>>

\* ws.on('pong'): the client answers a probe.
Pong(s) ==
    /\ socks[s].state = "open"
    /\ socks[s].listening
    /\ socks[s].missed > 0
    /\ socks' = [socks EXCEPT ![s] =
                    [@ EXCEPT !.isAlive = TRUE, !.lastActivity = now,
                              !.quiet = FALSE, !.missed = 0]]
    /\ UNCHANGED <<connsByIP, nextSock, nextBeat, now, storeVars>>
    /\ UNCHANGED <<nonceRest, afterWsVars>>

\* !ws.isAlive && (now - ws.lastActivity) > 60000; on a socket that was
\* closed before line 115 both fields are undefined and the comparison with
\* NaN is false.
inactive_Impatient(c, t) == ~c.isAlive /\ c.stamped /\ t - c.lastActivity > HEARTBEAT_INTERVAL

inactive_AtLimit(c, t) == ~c.isAlive /\ c.stamped /\ t - c.lastActivity >= IDLE_LIMIT

inactive(c, t) == ~c.isAlive /\ c.stamped /\ t - c.lastActivity > IDLE_LIMIT

\* The heartbeat interval: every socket of wss.clients is terminated or
\* probed; ws.ping() reaches the peer of an open socket only.
Heartbeat ==
    /\ now >= nextBeat
    /\ socks' = [s \in Sockets |->
                    IF s \notin clients THEN socks[s]
                    ELSE IF inactive(socks[s], now)
                    THEN [socks[s] EXCEPT !.state = "closing", !.reason = "terminated"]
                    ELSE [socks[s] EXCEPT
                             !.isAlive = FALSE,
                             !.missed = IF socks[s].state = "open" THEN @ + 1 ELSE @]]
    /\ nextBeat' = nextBeat + HEARTBEAT_INTERVAL
    /\ UNCHANGED <<connsByIP, nextSock, now, storeVars>>
    /\ UNCHANGED <<nonceRest, afterWsVars>>

\* The clock moves on by WsStepMs; a heartbeat that is due has fired by then.
WsTick ==
    /\ now < nextBeat
    /\ now + WsStepMs <= WsMaxNow
    /\ now' = now + WsStepMs
    /\ UNCHANGED <<socks, connsByIP, nextSock, nextBeat, storeVars>>
    /\ UNCHANGED <<nonceRest, afterWsVars>>

WsInit ==
    /\ socks = [s \in Sockets |-> NoSock]
    /\ connsByIP = EmptyMap
    /\ nextSock = 1
    /\ nextBeat = Epoch + HEARTBEAT_INTERVAL

\* Connections come and go; the clock stands.
AdmitNext ==
    \/ \E req \in Requests, token \in Tokens : Connect(req, token)
    \/ \E s \in Sockets : CloseEvent(s)

\* A few connections under the running clock and the heartbeat.
BeatNext ==
    \/ \E req \in Requests, token \in Tokens : nextSock <= BeatSockets /\ Connect(req, token)
    \/ \E s \in Sockets : CloseEvent(s)
    \/ \E s \in Sockets, raw \in RawMessages : Message(s, raw)
    \/ \E s \in Sockets : Pong(s)
    \/ Heartbeat
    \/ WsTick

(***************************************************************************)
(* Part IV.  The broadcast fan-out of several instances on one channel.    *)
(***************************************************************************)

\* the process ids an instance may run under (1 in a container)
MaxPid == 2
\* local connections of an instance
MaxConns == 1
\* broadcast() calls of a behaviour
MaxPublishes == 2
\* milliseconds that pass in a behaviour
MaxMillis == 1

Pids == 1 .. MaxPid
Conns == 1 .. MaxConns
Calls == 1 .. MaxPublishes

NoId == <<>>

\* `${process.pid}-${Date.now()}`
formatInstanceId(p, t) == natToString(p) \o <<"-">> \o natToString(t)

\* getInstanceId() in a process whose process.pid is p: computed at the
\* first call and kept
getInstanceId(i, p) ==
    IF instanceId[i] # NoId THEN instanceId[i] ELSE formatInstanceId(p, now)

\* JSON.stringify({ type, data, origin }) and the JSON.parse of the
\* subscriber: the call stands for type and data, the origin string is kept.
ChannelMessage(m, origin) == [call |-> m, origin |-> origin]

\* broadcastLocal(type, data): one send to every open connection
broadcastLocal(d, i, m) ==
    [d EXCEPT ![i] = [c \in Conns |->
        [n \in Calls |-> IF n = m /\ c \in wsOpen[i] THEN d[i][c][n] + 1 ELSE d[i][c][n]]]]

\* broadcast(type, data) on instance i; the publish reaches every subscriber
\* of the channel, the instance's own redisSub included, or is rejected and
\* the rejection is swallowed.
Broadcast(i, p, ok) ==
    /\ Len(calls) < MaxPublishes
    /\ LET m == Len(calls) + 1 IN
       /\ delivered' = broadcastLocal(delivered, i, m)
       /\ instanceId' = [instanceId EXCEPT ![i] = getInstanceId(i, p)]
       /\ inbox' = IF ok
                   THEN [j \in Instances |-> Append(inbox[j], ChannelMessage(m, getInstanceId(i, p)))]
                   ELSE inbox
       /\ published' = IF ok THEN [published EXCEPT ![m] = @ + 1] ELSE published
       /\ calls' = Append(calls, i)
    /\ UNCHANGED <<wsOpen, now, storeVars, nonceRest, wsVars, afterBcVars>>

isOwn_Never(origin, id) == FALSE

\* origin !== getInstanceId(), negated
isOwn(origin, id) == origin = id

\* redisSub.on('message') on instance i
Receive(i, p) ==
    /\ Len(inbox[i]) > 0
    /\ LET msg == Head(inbox[i]) IN
       /\ instanceId' = [instanceId EXCEPT ![i] = getInstanceId(i, p)]
       /\ delivered' = IF ~isOwn(msg.origin, getInstanceId(i, p))
                       THEN broadcastLocal(delivered, i, msg.call)
                       ELSE delivered
       /\ inbox' = [inbox EXCEPT ![i] = Tail(@)]
    /\ UNCHANGED <<wsOpen, published, calls, now, storeVars, nonceRest, wsVars, afterBcVars>>

\* A local connection of instance i opens or closes.
Toggle(i, c) ==
    /\ wsOpen' = [wsOpen EXCEPT ![i] = IF c \in @ THEN @ \ {c} ELSE @ \cup {c}]
    /\ UNCHANGED <<instanceId, inbox, delivered, published, calls, now,
                   storeVars, nonceRest, wsVars, afterBcVars>>

\* A millisecond passes.
Milli ==
    /\ now < Epoch + MaxMillis
    /\ now' = now + 1
    /\ UNCHANGED <<bcVars, storeVars, nonceRest, wsVars, afterBcVars>>

BcInit ==
    /\ instanceId = [i \in Instances |-> NoId]
    /\ inbox = [i \in Instances |-> <<>>]
    /\ wsOpen = [i \in Instances |-> Conns]
    /\ delivered = [i \in Instances |-> [c \in Conns |-> [n \in Calls |-> 0]]]
    /\ published = [n \in Calls |-> 0]
    /\ calls = <<>>

BcNext ==
    \/ \E i \in Instances, p \in Pids, ok \in BOOLEAN : Broadcast(i, p, ok)
    \/ \E i \in Instances, p \in Pids : Receive(i, p)
    \/ \E i \in Instances, c \in Conns : Toggle(i, c)
    \/ Milli

StoreInit ==
    /\ pixels = {}
    /\ history = <<>>
    /\ seq = 0
    /\ users = <<>>
    /\ snapshots = <<>>
    /\ cachePixels = <<>>
    /\ cacheCount = 0
    /\ placementsSincePrune = 0
    /\ statsCache = NoStatsCache
    /\ ret = NoRet
    /\ faults = 0
    /\ written = {}
    /\ roundTrip = IdleTrip

vars == <<storeVars, nonceVars, laterVars>>

\* The database is initialised with an empty table and no backup file.
BootInit == dbInitialized = TRUE

\* nothing has been sent
NoReply ==
    [req |-> "none", admin |-> FALSE, authorized |-> FALSE, size |-> 0, removal |-> FALSE,
     type |-> "none", code |-> "", status |-> 0, open |-> TRUE]

\* No request has been handled; OPEN_MODE is set or not when the process starts.
FanInit(mode) ==
    /\ openMode = mode
    /\ events = <<>>
    /\ reply = NoReply

\* req.headers.authorization: absent, or the characters of its value; a
\* word that is not split any further stands for its characters
NoHeader == [present |-> FALSE, value |-> <<>>]

\* req.user before authenticateToken has set it
NoReqUser == [set |-> FALSE, address |-> NULL, chainId |-> 0,
              isAuthorized |-> FALSE, isAdmin |-> FALSE]

NoRes == [status |-> 0, code |-> ""]

NoBody == [x |-> [t |-> "undefined", n |-> 0, s |-> <<>>],
           y |-> [t |-> "undefined", n |-> 0, s |-> <<>>], color |-> ""]

MwInit ==
    /\ httpReq = [headers |-> NoHeader, body |-> NoBody, user |-> NoReqUser]
    /\ httpRes = NoRes
    /\ chain = "idle"

\* local connections of the instance whose sends are observed
SendConns == 1 .. 3

\* Every connection is open and nothing has been sent.
SendInit ==
    /\ peerState = [c \in SendConns |-> "open"]
    /\ sentTo = [c \in SendConns |-> <<>>]
    /\ pubs = <<>>
    /\ failed = 0

\* The sibling instance has started over the empty table; the channel is
\* empty.
SibInit ==
    /\ sibPixels = <<>>
    /\ sibCount = 0
    /\ sibInbox = <<>>
    /\ sibSent = <<>>

EvInit(mode) == FanInit(mode) /\ MwInit /\ SendInit /\ SibInit

Init == StoreInit /\ NonceInit /\ WsInit /\ BcInit /\ BootInit /\ EvInit(FALSE)

Fails == {"none", "stmt", "late"}

(***************************************************************************)
(* Part V.  The four entry paths of a write: POST /pixels behind           *)
(* validatePixel, POST /pixels/batch, and the WebSocket messages 'pixel'   *)
(* and 'batch'.  The fan-out that follows an accepted write is Part IV and *)
(* leaves the store alone.                                                 *)
(***************************************************************************)

\* Max pixels of one HTTP batch: 10 in routes/index.js, here below the
\* longest list of the requests
HTTP_BATCH_MAX == 1


\* The values a coordinate field of a JSON body may hold.
Undefined == [t |-> "undefined", n |-> 0, s |-> <<>>]

Num(n) == [t |-> "number", n |-> n, s |-> <<>>]

Text(s) == [t |-> "string", n |-> 0, s |-> s]

\* the string parseInt(v, 10) makes of its argument
String(v) ==
    CASE v.t = "number" -> toString(v.n)
      [] v.t = "string" -> v.s
      [] OTHER -> <<"u", "n", "d", "e", "f", "i", "n", "e", "d">>

typeofNumber(v) == v.t = "number"

\* the color ["#ff0000"]: an array, which String() turns into "#ff0000"
ArrayColor == "[#ff0000]"

\* /^#[0-9A-Fa-f]{6}$/.test(color): test() matches against String(color)
hexColorRegex(c) == c \in {"#ff0000", "#FF0000", "#123456", ArrayColor}

colorToLowerCase(c) == IF c = "#FF0000" THEN "#ff0000" ELSE c

palette == Colors

\* The bodies of the single writes: in range; a coordinate that parseInt
\* reads as 1 and a color in capitals; x at the width; y below zero; x
\* missing; x not a number in any reading; a color outside the palette; no
\* color, in range and out of range.
Bodies ==
    {[x |-> Num(0), y |-> Num(0), color |-> "#ff0000"],
     [x |-> Text(<<"1", "x">>), y |-> Num(0), color |-> "#FF0000"],
     [x |-> Num(Width), y |-> Num(0), color |-> "#ff0000"],
     [x |-> Num(0), y |-> Num(-1), color |-> "#ff0000"],
     [x |-> Undefined, y |-> Num(0), color |-> "#ff0000"],
     [x |-> Text(<<"x">>), y |-> Num(0), color |-> "#ff0000"],
     [x |-> Num(0), y |-> Num(0), color |-> "#123456"],
     [x |-> Num(0), y |-> Num(0), color |-> ""],
     [x |-> Num(Width), y |-> Num(0), color |-> ""]}

\* the cells of the batches: in range, x at the width, x not a number, no
\* color
BatchBodies ==
    {[x |-> Num(0), y |-> Num(0), color |-> "#ff0000"],
     [x |-> Num(Width), y |-> Num(0), color |-> "#FF0000"],
     [x |-> Text(<<"1", "x">>), y |-> Num(0), color |-> "#ff0000"],
     [x |-> Num(1), y |-> Num(0), color |-> ""]}

BodyLists == SeqsUpTo(BatchBodies, MaxBatch)

\* data is missing from the message
NoData == [x |-> Undefined, y |-> Undefined, color |-> "", missing |-> TRUE]

Rejected == [ok |-> FALSE, x |-> 0, y |-> 0, color |-> ""]

inBounds(x, y) == x >= 0 /\ x < Width /\ y >= 0 /\ y < Height

\* validatePixel: the rewritten req.body, or the request is rejected
validatePixel(b) ==
    LET xNum == parseInt(String(b.x))
        yNum == parseInt(String(b.y))
        normalized == colorToLowerCase(b.color)
    IN  IF b.x = Undefined \/ b.y = Undefined \/ b.color = "" THEN Rejected
        ELSE IF isNaN(xNum) \/ isNaN(yNum) THEN Rejected
        ELSE IF ~inBounds(xNum.val, yNum.val) THEN Rejected
        ELSE IF ~hexColorRegex(b.color) THEN Rejected
        ELSE IF normalized \notin palette THEN Rejected
        ELSE [ok |-> TRUE, x |-> xNum.val, y |-> yNum.val, color |-> normalized]

\* router.post('/'): the caller has passed authenticateToken and
\* requireAuthorization
HttpPostPixel(b, addr, fail) ==
    LET v == validatePixel(b) IN
    IF v.ok THEN PlacePixel(v.x, v.y, v.color, addr, fail) ELSE UNCHANGED <<storeVars, nonceVars, hostVars>>

\* the filter, map, filter, filter of router.post('/batch')
httpBatchValid(list) ==
    LET present == SelectSeq(list, LAMBDA p :
                       p.x # Undefined /\ p.y # Undefined /\ p.color # "" /\ hexColorRegex(p.color))
        parsed == [i \in 1 .. Len(present) |->
                       [x |-> parseInt(String(present[i].x)),
                        y |-> parseInt(String(present[i].y)),
                        color |-> colorToLowerCase(present[i].color)]]
        inside == SelectSeq(parsed, LAMBDA p :
                       ~isNaN(p.x) /\ ~isNaN(p.y) /\ inBounds(p.x.val, p.y.val))
        known == SelectSeq(inside, LAMBDA p : p.color \in palette)
    IN  [i \in 1 .. Len(known) |->
            [x |-> known[i].x.val, y |-> known[i].y.val, color |-> known[i].color]]

\* router.post('/batch')
HttpBatch(list, addr, failAt) ==
    IF Len(list) = 0 \/ Len(list) > HTTP_BATCH_MAX \/ Len(httpBatchValid(list)) = 0
    THEN UNCHANGED <<storeVars, nonceVars, hostVars>>
    ELSE PlaceBatch(httpBatchValid(list), addr, failAt)

\* the users of a socket: none, an authorized one, an admin
WsUsers ==
    {NoUser, jwtVerify("good").user, [jwtVerify("good").user EXCEPT !.isAdmin = TRUE]}

\* !config.openMode && (!ws.user || !ws.user.isAuthorized)
authRequired(user) == ~openMode /\ ~user.isAuthorized

\* ws.user?.address || (config.openMode ? 'anonymous' : null)
wsCaller(user) ==
    IF user.address # NULL THEN user.address
    ELSE IF openMode THEN "anonymous" ELSE NULL

\* the branch handlePixel takes
handlePixelBranch_EraseForAll(user, data) ==
    IF data = NoData \/ ~typeofNumber(data.x) \/ ~typeofNumber(data.y) THEN "Invalid data"
    ELSE IF authRequired(user) THEN "AUTH_REQUIRED"
    ELSE IF data.color = "" THEN "erase"
    ELSE "place"

handlePixelBranch(user, data) ==
    IF data = NoData \/ ~typeofNumber(data.x) \/ ~typeofNumber(data.y) THEN "Invalid data"
    ELSE IF authRequired(user) THEN "AUTH_REQUIRED"
    ELSE IF data.color = "" THEN IF ~user.isAdmin THEN "NOT_ADMIN" ELSE "erase"
    ELSE "place"

\* handlePixel(ws, data): the store call
WsPixel(user, data, fail) ==
    LET branch == handlePixelBranch(user, data)
    IN  IF branch = "erase" THEN ErasePixel(data.x.n, data.y.n, wsCaller(user), fail)
        ELSE IF branch = "place"
        THEN PlacePixel(data.x.n, data.y.n, data.color, wsCaller(user), fail)
        ELSE UNCHANGED <<storeVars, nonceVars, hostVars>>

\* data.pixels.filter(p => typeof p.x === 'number' && typeof p.y === 'number' && p.color)
wsBatchValid(list) ==
    LET valid == SelectSeq(list, LAMBDA p :
                     typeofNumber(p.x) /\ typeofNumber(p.y) /\ p.color # "")
    IN  [i \in 1 .. Len(valid) |->
            [x |-> valid[i].x.n, y |-> valid[i].y.n, color |-> valid[i].color]]

\* the branch handleBatch takes
handleBatchBranch(user, list) ==
    IF Len(list) = 0 THEN "Invalid batch"
    ELSE IF authRequired(user) THEN "AUTH_REQUIRED"
    ELSE IF Len(wsBatchValid(list)) = 0 THEN "none valid"
    ELSE "place"

\* handleBatch(ws, data): the store call
WsBatch(user, list, failAt) ==
    IF handleBatchBranch(user, list) = "place"
    THEN PlaceBatch(wsBatchValid(list), wsCaller(user), failAt)
    ELSE UNCHANGED <<storeVars, nonceVars, hostVars>>

EntryNext ==
    \/ \E b \in Bodies, addr \in Addrs, fail \in Fails : HttpPostPixel(b, addr, fail)
          /\ UNCHANGED evVars
    \/ \E list \in BodyLists, addr \in Addrs, failAt \in 0 .. (MaxBatch + 2) :
          HttpBatch(list, addr, failAt)
          /\ UNCHANGED evVars
    \/ \E user \in WsUsers, data \in Bodies \cup {NoData}, fail \in Fails :
          WsPixel(user, data, fail)
          /\ UNCHANGED evVars
    \/ \E user \in WsUsers, list \in BodyLists, failAt \in 0 .. (MaxBatch + 2) :
          WsBatch(user, list, failAt)
          /\ UNCHANGED evVars

(***************************************************************************)
(* Part VI.  Start-up: the process ends and a new one runs initDatabase()  *)
(* over the tables the old one left, with the backup file it finds.        *)
(***************************************************************************)

\* cells of a backup file
MaxBackup == 2

\* loadEmbeddedBackup(): null, or the parsed file with its pixels array
NoBackup == <<[x |-> -1, y |-> -1, color |-> NULL]>>

Backups == SeqsUpTo(Cells, MaxBackup) \cup {NoBackup}

\* SELECT ... FROM pixels without ORDER BY: the rows in some order
RowOrders(tbl) ==
    {q \in [1 .. Cardinality(tbl) -> tbl] :
        \A i, j \in 1 .. Cardinality(tbl) : i # j => q[i] # q[j]}

\* rows.forEach(p => cache.pixels.set(`${p.x},${p.y}`, p)), the first n rows
RECURSIVE loadRows(_, _, _)
loadRows(c, rows, n) ==
    IF n = 0 THEN c
    ELSE cacheSet(loadRows(c, rows, n - 1), cacheKey(rows[n].x, rows[n].y),
                  cacheEntry(rows[n].x, rows[n].y, rows[n].color, rows[n].placed_by))

\* one iteration of the for loop of importTx
importTxCell(st, p) ==
    [pixels |-> setPixel(st.pixels, p.x, p.y, p.color, NULL),
     cache |-> cacheSet(st.cache, cacheKey(p.x, p.y), cacheEntry(p.x, p.y, p.color, NULL))]

RECURSIVE importTxLoop(_, _, _)
importTxLoop(st, list, n) ==
    IF n = 0 THEN st ELSE importTxCell(importTxLoop(st, list, n - 1), list[n])

\* cache.count = backup.pixels.length
importedCount(c, list) == Len(list)

\* The process ends; the next one starts with the module state of
\* database.js as the module body leaves it, over the same database file.
Restart ==
    /\ dbInitialized
    /\ dbInitialized' = FALSE
    /\ cachePixels' = <<>>
    /\ cacheCount' = 0
    /\ placementsSincePrune' = 0
    /\ statsCache' = NoStatsCache
    /\ ret' = NoRet
    /\ roundTrip' = IdleTrip
    /\ UNCHANGED <<dbVars, faults, written, nonceVars, wsVars, bcVars, evVars>>

\* initDatabase() with the backup that loadEmbeddedBackup() returns.
\*   failAt = 0           nothing throws
\*   failAt = k in 1..N   setPixel of cell k of the backup throws
\*   failAt = N + 1       the commit of importTx throws
InitDatabase(rows, backup, failAt) ==
    /\ ~dbInitialized
    /\ rows \in RowOrders(pixels)
    /\ LET loaded == loadRows(cachePixels, rows, Len(rows))
           imports == Len(rows) = 0 /\ backup # NoBackup /\ Len(backup) > 0
           N == Len(backup)
           done == IF failAt \in 1 .. N THEN failAt - 1 ELSE N
           st == importTxLoop([pixels |-> pixels, cache |-> loaded], backup, done)
       IN
       /\ failAt \in 0 .. (IF imports THEN N + 1 ELSE 0)
       /\ IF ~imports
          THEN /\ cachePixels' = loaded
               /\ cacheCount' = Len(rows)
               /\ dbInitialized' = TRUE
               /\ UNCHANGED pixels
          ELSE /\ cachePixels' = st.cache
               /\ IF failAt = 0
                  THEN /\ pixels' = st.pixels
                       /\ cacheCount' = importedCount(st.cache, backup)
                       /\ dbInitialized' = TRUE
                  ELSE /\ cacheCount' = Len(rows)
                       /\ UNCHANGED <<pixels, dbInitialized>>
    /\ ret' = Ret("initDatabase", failAt = 0, <<>>)
    /\ UNCHANGED <<history, seq, users, snapshots, placementsSincePrune, statsCache, faults,
                   written, roundTrip, nonceVars, wsVars, bcVars, evVars>>

\* Writes of a running process, its end, and the start of the next.
BootNext ==
    \/ \E x \in XS, y \in YS, color \in Colors, addr \in Addrs, fail \in Fails :
          dbInitialized /\ PlacePixel(x, y, color, addr, fail)
          /\ UNCHANGED evVars
    \/ \E x \in XS, y \in YS, admin \in Addrs, fail \in Fails :
          dbInitialized /\ ErasePixel(x, y, admin, fail)
          /\ UNCHANGED evVars
    \/ Restart
          /\ UNCHANGED evVars
    \/ \E backup \in Backups, failAt \in 0 .. (MaxBackup + 1) :
          \E rows \in RowOrders(pixels) : InitDatabase(rows, backup, failAt)
          /\ UNCHANGED evVars

(***************************************************************************)
(* Part VII.  The middleware in front of POST /pixels                      *)
(* (middleware/auth.js, middleware/validation.js), called one after the    *)
(* other on a request.  pixelLimiter (a rate limiter) is left out.         *)
(***************************************************************************)

\* tokens that generateToken signed with the secret and that have not expired
SignedTokens == {"t.member", "t.admin", "t.guest", "t.warden"}

\* the tokens a client may present
JwtTokens == SignedTokens \cup {"t.expired", "t.forged"}

\* config.adminWallets
adminWallets == {"0xb"}

\* the payload that services/auth.js authenticate() hands to generateToken
payloadOf(token) ==
    [address |-> IF token \in {"t.admin", "t.warden"} THEN "0xb" ELSE "0xa",
     chainId |-> 1,
     isAuthorized |-> token \in {"t.member", "t.admin"},
     isAdmin |-> token \in {"t.admin", "t.warden"}]

\* String.prototype.split(' '): the words between the spaces
RECURSIVE split(_)
split(s) ==
    IF \A i \in 1 .. Len(s) : s[i] # " " THEN <<s>>
    ELSE LET k == CHOOSE i \in 1 .. Len(s) :
                      s[i] = " " /\ \A j \in 1 .. (i - 1) : s[j] # " "
         IN  <<SubSeq(s, 1, k - 1)>> \o split(SubSeq(s, k + 1, Len(s)))

\* the Authorization headers of the requests: none; a scheme alone; a scheme
\* and a token; a token alone; two spaces before the token; another scheme
Headers ==
    {NoHeader, [present |-> TRUE, value |-> <<"Bearer">>],
     [present |-> TRUE, value |-> <<"Bearer", " ">>],
     [present |-> TRUE, value |-> <<"t.member">>],
     [present |-> TRUE, value |-> <<"Bearer", " ", " ", "t.member">>],
     [present |-> TRUE, value |-> <<"Basic", " ", "t.admin">>]}
    \cup {[present |-> TRUE, value |-> <<"Bearer", " ", t>>] : t \in JwtTokens}

\* req.headers['authorization']?.split(' ')[1]; <<>> when it is undefined or ''
headerToken(h) ==
    LET parts == IF h.present THEN split(h.value) ELSE <<>>
    IN  IF Len(parts) >= 2 THEN parts[2] ELSE <<>>

\* jwt.verify(token, secret): the name of the error it throws, "" when it returns
jwtVerifyThrows(word) ==
    IF Len(word) = 1 /\ word[1] \in SignedTokens THEN ""
    ELSE IF word = <<"t.expired">> THEN "TokenExpiredError"
    ELSE "JsonWebTokenError"

authenticateToken_ExpiredIsInvalid(h) ==
    LET token == headerToken(h)
    IN  IF token = <<>>
        THEN [next |-> FALSE, status |-> 401, code |-> "NO_TOKEN", user |-> NoReqUser]
        ELSE IF jwtVerifyThrows(token) = ""
        THEN [next |-> TRUE, status |-> 0, code |-> "",
              user |-> [set |-> TRUE] @@ payloadOf(token[1])]
        ELSE [next |-> FALSE, status |-> 403, code |-> "INVALID_TOKEN", user |-> NoReqUser]

\* authenticateToken(req, res, next): whether next() is called, the response
\* otherwise, and req.user
authenticateToken(h) ==
    LET token == headerToken(h)
        thrown == jwtVerifyThrows(token)
        decoded == payloadOf(token[1])
    IN  IF token = <<>>
        THEN [next |-> FALSE, status |-> 401, code |-> "NO_TOKEN", user |-> NoReqUser]
        ELSE IF thrown = ""
        THEN [next |-> TRUE, status |-> 0, code |-> "",
              user |-> [set |-> TRUE, address |-> decoded.address,
                        chainId |-> decoded.chainId,
                        isAuthorized |-> decoded.isAuthorized,
                        isAdmin |-> decoded.isAdmin \/ FALSE]]
        ELSE IF thrown = "TokenExpiredError"
        THEN [next |-> FALSE, status |-> 401, code |-> "TOKEN_EXPIRED", user |-> NoReqUser]
        ELSE [next |-> FALSE, status |-> 403, code |-> "INVALID_TOKEN", user |-> NoReqUser]

\* requireAuthorization(req, res, next)
requireAuthorization(user) ==
    IF ~user.set THEN [next |-> FALSE, status |-> 401, code |-> "NO_AUTH"]
    ELSE IF ~user.isAuthorized THEN [next |-> FALSE, status |-> 403, code |-> "NOT_AUTHORIZED"]
    ELSE [next |-> TRUE, status |-> 0, code |-> ""]

\* requireAdmin(req, res, next)
requireAdmin(user) ==
    IF ~user.set THEN [next |-> FALSE, status |-> 401, code |-> "NO_AUTH"]
    ELSE IF ~(user.isAdmin \/ user.address \in adminWallets)
    THEN [next |-> FALSE, status |-> 403, code |-> "NOT_ADMIN"]
    ELSE [next |-> TRUE, status |-> 0, code |-> ""]

\* what validatePixel throws: the code of the AppError, "TypeError" when
\* color.toLowerCase is not a function, "" when it calls next()
validatePixelThrows(b) ==
    LET xNum == parseInt(String(b.x))
        yNum == parseInt(String(b.y))
    IN  IF b.x = Undefined \/ b.y = Undefined \/ b.color = "" THEN "VALIDATION_ERROR"
        ELSE IF isNaN(xNum) \/ isNaN(yNum) THEN "INVALID_COORDINATES"
        ELSE IF ~inBounds(xNum.val, yNum.val) THEN "OUT_OF_BOUNDS"
        ELSE IF ~hexColorRegex(b.color) THEN "INVALID_COLOR"
        ELSE IF b.color = ArrayColor THEN "TypeError"
        ELSE IF colorToLowerCase(b.color) \notin palette THEN "COLOR_NOT_IN_PALETTE"
        ELSE ""

\* the bodies of the requests: those of Part V, and a color that is an array
MwBodies ==
    Bodies \cup {[x |-> Num(0), y |-> Num(0), color |-> ArrayColor],
                 [x |-> Num(Width), y |-> Num(0), color |-> "red"],
                 [x |-> Text(<<"x">>), y |-> Num(Height), color |-> "red"]}

\* a request arrives
Request(h, b) ==
    /\ chain \in {"idle", "handler", "responded"}
    /\ httpReq' = [headers |-> h, body |-> b, user |-> NoReqUser]
    /\ httpRes' = NoRes
    /\ chain' = "authenticateToken"
    /\ UNCHANGED <<storeVars, nonceVars, hostVars, fanVars, sendVars, sibVars>>

AuthenticateToken ==
    /\ chain = "authenticateToken"
    /\ LET a == authenticateToken(httpReq.headers)
       IN  /\ httpReq' = [httpReq EXCEPT !.user = a.user]
           /\ httpRes' = [status |-> a.status, code |-> a.code]
           /\ chain' = IF a.next THEN "requireAuthorization" ELSE "responded"
    /\ UNCHANGED <<storeVars, nonceVars, hostVars, fanVars, sendVars, sibVars>>

RequireAuthorization ==
    /\ chain = "requireAuthorization"
    /\ LET a == requireAuthorization(httpReq.user)
       IN  /\ httpRes' = [status |-> a.status, code |-> a.code]
           /\ chain' = IF a.next THEN "validatePixel" ELSE "responded"
    /\ UNCHANGED <<httpReq, storeVars, nonceVars, hostVars, fanVars, sendVars, sibVars>>

\* validatePixel(req, res, next); what it throws reaches the error handler
ValidatePixel ==
    /\ chain = "validatePixel"
    /\ LET v == validatePixel(httpReq.body)
           thrown == validatePixelThrows(httpReq.body)
       IN  IF thrown = ""
           THEN /\ httpReq' = [httpReq EXCEPT !.body =
                                  [x |-> Num(v.x), y |-> Num(v.y), color |-> v.color]]
                /\ chain' = "handler"
                /\ UNCHANGED httpRes
           ELSE /\ httpRes' = [status |-> IF thrown = "TypeError" THEN 500 ELSE 400,
                               code |-> thrown]
                /\ chain' = "responded"
                /\ UNCHANGED httpReq
    /\ UNCHANGED <<storeVars, nonceVars, hostVars, fanVars, sendVars, sibVars>>

MwNext ==
    \/ \E h \in Headers, b \in MwBodies : Request(h, b)
    \/ AuthenticateToken
    \/ RequireAuthorization
    \/ ValidatePixel

(***************************************************************************)
(* Part VIII.  The requests of one instance with what follows the store    *)
(* call: the broadcast() calls and what the originator is sent.  The       *)
(* WebSocket message handler (part_009:95-197) and the routes of           *)
(* routes/index.js and routes/canvas.js behind their middleware.  An HTTP  *)
(* handler has no await between its store call and its broadcast, and a    *)
(* message handler is synchronous, so a request is one step.  getStats()   *)
(* is read as cache.count (its five second cache is reset by every write). *)
(***************************************************************************)

\* requests that reach the store in one behaviour of the request handlers
FanWork == 2

pixelEvent(x, y, color) ==
    [type |-> "pixel", cells |-> <<[x |-> x, y |-> y, color |-> color]>>]

batchEvent(list) == [type |-> "batch", cells |-> list]

\* broadcast('status', state.status): checkAndUpdateFullnessState
\* (backup.js:101-105) always returns a status
statusEvent == [type |-> "status", cells |-> <<>>]

\* send(ws, type, data): nothing is sent unless ws.readyState is OPEN
send(open, type, code) ==
    IF open THEN [type |-> type, code |-> code, status |-> 0, open |-> TRUE]
    ELSE [type |-> "none", code |-> "", status |-> 0, open |-> FALSE]

\* res.status(status).json({code})
respond(status, code) == [type |-> "json", code |-> code, status |-> status, open |-> TRUE]

\* the observer of a request: its kind, the rights its caller has, the
\* number of entries it lists, and what the caller is sent
Answer(kind, admin, authorized, size, sent) ==
    [req |-> kind, admin |-> admin, authorized |-> authorized, size |-> size,
     removal |-> FALSE] @@ sent

\* the same for a request that asks for a cell or the grid to be removed
Removal(answer) == [answer EXCEPT !.removal = TRUE]

\* the rights of the caller of an HTTP request, by its Authorization header
httpAdmin(h) ==
    LET auth == authenticateToken(h) IN auth.next /\ requireAdmin(auth.user).next

httpAuthorized(h) ==
    LET auth == authenticateToken(h) IN auth.next /\ auth.user.isAuthorized

\* the tokens of the callers: a member, an admin, and one not authorized
FanTokens == {"t.member", "t.admin", "t.guest"}

\* ws.user of the connections: none, or what the token held at the connect
FanUsers ==
    {NoUser} \cup {[address |-> payloadOf(t).address,
                    isAuthorized |-> payloadOf(t).isAuthorized,
                    isAdmin |-> payloadOf(t).isAdmin] : t \in FanTokens}

\* data of the 'pixel' messages: missing, a cell, a cell in capitals outside
\* the grid, no color
FanData ==
    {NoData,
     [x |-> Num(0), y |-> Num(0), color |-> "#ff0000"],
     [x |-> Num(1), y |-> Num(0), color |-> "#0000ff"],
     [x |-> Num(0), y |-> Num(0), color |-> ""]}

\* data.pixels of the 'batch' messages and req.body.pixels of POST
\* /pixels/batch: none, one cell, one entry without color, two cells, a cell
\* and an entry without color
FanLists ==
    {<<>>,
     <<[x |-> Num(0), y |-> Num(0), color |-> "#ff0000"]>>,
     <<[x |-> Num(1), y |-> Num(0), color |-> ""]>>,
     <<[x |-> Num(0), y |-> Num(0), color |-> "#0000ff"],
       [x |-> Num(1), y |-> Num(0), color |-> "#ff0000"]>>,
     <<[x |-> Num(1), y |-> Num(0), color |-> "#ff0000"],
       [x |-> Num(0), y |-> Num(0), color |-> ""]>>}

\* req.body.pixels of POST /bootstrap
FanImports ==
    {<<>>, <<[x |-> 0, y |-> 0, color |-> "#ff0000"]>>,
     <<[x |-> 1, y |-> 0, color |-> "#0000ff"], [x |-> 0, y |-> 0, color |-> "#0000ff"]>>}

\* the Authorization headers of the HTTP requests
FanHeaders ==
    {NoHeader} \cup {[present |-> TRUE, value |-> <<"Bearer", " ", t>>] : t \in FanTokens}

\* what throws in a store call: nothing, or the commit; nothing, the first
\* cell of a list, or the statement after the last cell of the longest list
FanFails == {"none", "late"}

FanFailAts == {0, 1, MaxBatch + 1}

\* the broadcast() calls of handlePixel
handlePixelEvents_OpenOnly(user, data, fail, open) ==
    LET branch == handlePixelBranch(user, data)
        change == pixelEvent(data.x.n, data.y.n,
                             IF branch = "erase" THEN NULL ELSE data.color)
    IN  IF branch \in {"erase", "place"} /\ fail = "none" /\ open
        THEN <<change, statusEvent>> ELSE <<>>

handlePixelEvents(user, data, fail, open) ==
    LET branch == handlePixelBranch(user, data)
        change == pixelEvent(data.x.n, data.y.n,
                             IF branch = "erase" THEN NULL ELSE data.color)
    IN  IF branch \in {"erase", "place"} /\ fail = "none"
        THEN <<change, statusEvent>> ELSE <<>>

\* ws.on('message') with {type: 'pixel', data}; open: the socket is still
\* OPEN when the handler sends
OnPixel(user, data, fail, open) ==
    /\ work < FanWork
    /\ WsPixel(user, data, fail)
    /\ events' = events \o handlePixelEvents(user, data, fail, open)
    /\ reply' = LET branch == handlePixelBranch(user, data)
                    answer == Answer("pixel", user.isAdmin, user.isAuthorized, 1,
                                  IF branch \in {"erase", "place"}
                                  THEN IF fail = "none" THEN send(open, "none", "")
                                       ELSE send(open, "error", "thrown")
                                  ELSE send(open, "error", branch))
                IN  IF data # NoData /\ data.color = "" THEN Removal(answer) ELSE answer
    /\ UNCHANGED <<openMode, mwVars, sendVars, sibVars>>

\* ws.on('message') with {type: 'batch', data: {pixels: list}}
OnBatch(user, list, failAt, open) ==
    /\ work < FanWork
    /\ WsBatch(user, list, failAt)
    /\ LET branch == handleBatchBranch(user, list)
       IN  /\ events' = IF branch = "place" /\ failAt = 0
                        THEN events \o <<batchEvent(wsBatchValid(list)), statusEvent>>
                        ELSE events
           /\ reply' = Answer("batch", user.isAdmin, user.isAuthorized, Len(list),
                               IF branch = "place"
                               THEN IF failAt = 0 THEN send(open, "none", "")
                                    ELSE send(open, "error", "thrown")
                               ELSE IF branch = "none valid" THEN send(open, "none", "")
                               ELSE send(open, "error", branch))
    /\ UNCHANGED <<openMode, mwVars, sendVars, sibVars>>

\* ws.on('message') with a raw message JSON.parse throws on: the empty catch
OnUnparsable(user, open) ==
    /\ reply' = Answer("unparsable", user.isAdmin, user.isAuthorized, 0, send(open, "none", ""))
    /\ UNCHANGED <<storeVars, nonceVars, hostVars, openMode, events, mwVars, sendVars, sibVars>>

\* router.post('/', authenticateToken, requireAuthorization, pixelLimiter,
\* validatePixel, handler)
PostPixel(h, b, fail) ==
    LET auth == authenticateToken(h)
        allowed == requireAuthorization(auth.user)
        thrown == validatePixelThrows(b)
        v == validatePixel(b)
        refused == IF ~auth.next THEN respond(auth.status, auth.code)
                   ELSE IF ~allowed.next THEN respond(allowed.status, allowed.code)
                   ELSE respond(IF thrown = "TypeError" THEN 500 ELSE 400, thrown)
    IN  /\ work < FanWork
        /\ IF auth.next /\ allowed.next /\ thrown = ""
           THEN /\ HttpPostPixel(b, auth.user.address, fail)
                /\ events' = IF fail = "none"
                             THEN Append(events, pixelEvent(v.x, v.y, v.color))
                             ELSE events
                /\ reply' = Answer("POST /pixels", httpAdmin(h), httpAuthorized(h), 1,
                                    respond(IF fail = "none" THEN 201 ELSE 500, ""))
           ELSE /\ reply' = Answer("POST /pixels", httpAdmin(h), httpAuthorized(h), 1, refused)
                /\ UNCHANGED <<storeVars, nonceVars, hostVars, events>>
        /\ UNCHANGED <<openMode, mwVars, sendVars, sibVars>>

\* router.post('/batch', authenticateToken, requireAuthorization, handler)
PostBatch(h, list, failAt) ==
    LET auth == authenticateToken(h)
        allowed == requireAuthorization(auth.user)
        valid == httpBatchValid(list)
        refused == IF ~auth.next THEN respond(auth.status, auth.code)
                   ELSE IF ~allowed.next THEN respond(allowed.status, allowed.code)
                   ELSE IF Len(list) = 0 THEN respond(400, "INVALID_REQUEST")
                   ELSE IF Len(list) > HTTP_BATCH_MAX THEN respond(400, "BATCH_TOO_LARGE")
                   ELSE respond(400, "INVALID_PIXELS")
    IN  /\ work < FanWork
        /\ IF /\ auth.next /\ allowed.next
              /\ Len(list) # 0 /\ Len(list) <= HTTP_BATCH_MAX /\ Len(valid) # 0
           THEN /\ HttpBatch(list, auth.user.address, failAt)
                /\ events' = IF failAt = 0 THEN Append(events, batchEvent(valid))
                             ELSE events
                /\ reply' = Answer("POST /pixels/batch", httpAdmin(h), httpAuthorized(h),
                                    Len(list), respond(IF failAt = 0 THEN 201 ELSE 500, ""))
           ELSE /\ reply' = Answer("POST /pixels/batch", httpAdmin(h), httpAuthorized(h),
                                    Len(list), refused)
                /\ UNCHANGED <<storeVars, nonceVars, hostVars, events>>
        /\ UNCHANGED <<openMode, mwVars, sendVars, sibVars>>

\* req.params of DELETE /pixels/:x/:y
FanParams == {<<"0">>, <<"1">>, <<"x">>}

\* router.delete('/:x/:y', authenticateToken, requireAdmin, handler)
DeletePixel(h, px, py, fail) ==
    LET auth == authenticateToken(h)
        allowed == requireAdmin(auth.user)
        x == parseInt(px)
        y == parseInt(py)
        refused == IF ~auth.next THEN respond(auth.status, auth.code)
                   ELSE IF ~allowed.next THEN respond(allowed.status, allowed.code)
                   ELSE respond(400, "INVALID_COORDINATES")
    IN  /\ work < FanWork
        /\ IF auth.next /\ allowed.next /\ ~isNaN(x) /\ ~isNaN(y)
           THEN /\ ErasePixel(x.val, y.val, auth.user.address, fail)
                /\ events' = IF fail = "none"
                             THEN Append(events, pixelEvent(x.val, y.val, NULL))
                             ELSE events
                /\ reply' = Removal(Answer("DELETE /pixels", httpAdmin(h), httpAuthorized(h), 1,
                                            respond(IF fail = "none" THEN 200 ELSE 500, "")))
           ELSE /\ reply' = Removal(Answer("DELETE /pixels", httpAdmin(h), httpAuthorized(h), 1,
                                            refused))
                /\ UNCHANGED <<storeVars, nonceVars, hostVars, events>>
        /\ UNCHANGED <<openMode, mwVars, sendVars, sibVars>>

\* router.delete('/', authenticateToken, requireAdmin, handler) of
\* routes/canvas.js: res.json(canvasService.clearCanvas())
DeleteCanvas(h, fail) ==
    LET auth == authenticateToken(h)
        allowed == requireAdmin(auth.user)
    IN  /\ work < FanWork
        /\ IF auth.next /\ allowed.next
           THEN /\ ClearCanvas(fail)
                /\ reply' = Removal(Answer("DELETE /canvas", httpAdmin(h), httpAuthorized(h), 0,
                                            respond(IF fail = "none" THEN 200 ELSE 500, "")))
           ELSE /\ reply' = Removal(Answer("DELETE /canvas", httpAdmin(h), httpAuthorized(h), 0,
                                            IF ~auth.next THEN respond(auth.status, auth.code)
                                            ELSE respond(allowed.status, allowed.code)))
                /\ UNCHANGED <<storeVars, nonceVars, hostVars>>
        /\ UNCHANGED <<openMode, events, mwVars, sendVars, sibVars>>

\* router.post('/bootstrap', handler): no middleware looks at the caller
PostBootstrap(list, failAt) ==
    /\ work < FanWork
    /\ IF cacheCount > 0
       THEN /\ reply' = Answer("POST /bootstrap", FALSE, FALSE, Len(list), respond(403, ""))
            /\ UNCHANGED <<storeVars, nonceVars, hostVars>>
       ELSE /\ ImportCanvas(list, failAt)
            /\ reply' = Answer("POST /bootstrap", FALSE, FALSE, Len(list),
                                respond(IF failAt = 0 THEN 200 ELSE 500, ""))
    /\ UNCHANGED <<openMode, events, mwVars, sendVars, sibVars>>

FanNext ==
    \/ \E user \in FanUsers, data \in FanData, fail \in FanFails, open \in BOOLEAN :
          OnPixel(user, data, fail, open)
    \/ \E user \in FanUsers, list \in FanLists, failAt \in FanFailAts, open \in BOOLEAN :
          OnBatch(user, list, failAt, open)
    \/ \E open \in BOOLEAN : OnUnparsable(NoUser, open)
    \/ \E h \in FanHeaders, b \in FanData \ {NoData}, fail \in FanFails : PostPixel(h, b, fail)
    \/ \E h \in FanHeaders, list \in FanLists, failAt \in FanFailAts :
          PostBatch(h, list, failAt)
    \/ \E h \in FanHeaders, px \in FanParams, fail \in FanFails :
          DeletePixel(h, px, <<"0">>, fail)
    \/ \E h \in FanHeaders, fail \in {"none", "clear"} : DeleteCanvas(h, fail)
    \/ \E list \in FanImports, failAt \in FanFailAts : PostBootstrap(list, failAt)

\* OPEN_MODE may be set when the process starts
InitFan == StoreInit /\ NonceInit /\ WsInit /\ BcInit /\ BootInit /\ MwInit /\ SendInit /\ SibInit
           /\ \E mode \in BOOLEAN : FanInit(mode)

(***************************************************************************)
(* Part IX.  The placement log over a longer run of one cell: the three    *)
(* transactions that append to pixel_history (database.js:199-232), with   *)
(* more work than Part I allows and fewer inputs.                          *)
(***************************************************************************)
\* most work of a behaviour of the placement log
LogWork == 6

LogCell == [x |-> 0, y |-> 0, color |-> "#ff0000"]

LogLists == {<<LogCell>>, <<LogCell, LogCell>>}

LogNext ==
    \/ \E fail \in Fails :
          /\ work < LogWork
          /\ placePixelTx(LogCell.x, LogCell.y, LogCell.color, "0xa", fail)
          /\ UNCHANGED evVars
    \/ \E list \in LogLists, failAt \in {0, MaxBatch + 2} :
          /\ work + Len(list) <= LogWork
          /\ placePixelsBatch(list, "0xa", failAt)
          /\ UNCHANGED evVars
    \/ \E fail \in Fails :
          /\ work < LogWork
          /\ eraseTx(LogCell.x, LogCell.y, "0xa", fail)
          /\ UNCHANGED evVars

(***************************************************************************)
(* Part X.  databaseAPI.getStats (database.js:290-298) over the store of   *)
(* Part I and the clock of Part II.                                        *)
(***************************************************************************)
\* statsCache.ttl (database.js:14)
STATS_TTL == 5000
\* clock readings of a behaviour after the first
MaxStatsTicks == 3

\* The clock is read twice per ttl.
StatsStepMs == STATS_TTL \div 2

statsFresh_NoTtl(sc, t) == sc.data # NoStats

\* statsCache.data && Date.now() - statsCache.ts < statsCache.ttl
statsFresh(sc, t) == sc.data # NoStats /\ t - sc.ts < STATS_TTL

\* the object of database.js:294
computeStats ==
    [total_pixels |-> cacheCount,
     total_users |-> Cardinality(DOMAIN users),
     total_placements |-> Len(history)]

\* ret.args of a getStats call: what it returned and when it was called
GetStats ==
    /\ dbInitialized
    /\ statsCache' = IF statsFresh(statsCache, now) THEN statsCache
                     ELSE [data |-> computeStats, ts |-> now]
    /\ ret' = Ret("getStats", TRUE, <<statsCache'.data, now>>)
    /\ UNCHANGED <<dbVars, cachePixels, cacheCount, placementsSincePrune, faults, written,
                   roundTrip, nonceVars, hostVars>>

StatsTick ==
    /\ now + StatsStepMs <= Epoch + MaxStatsTicks * StatsStepMs
    /\ now' = now + StatsStepMs
    /\ UNCHANGED <<store, redisClient, redis, nextSweep, slots, started, accepted,
                   storeVars, hostVars>>

StatsCells == {[x |-> 0, y |-> 0, color |-> "#ff0000"], [x |-> 1, y |-> 0, color |-> "#ff0000"]}

StatsLists == {<<[x |-> 0, y |-> 0, color |-> "#ff0000"]>>,
               <<[x |-> 0, y |-> 0, color |-> "#ff0000"], [x |-> 1, y |-> 0, color |-> "#ff0000"]>>}

StatsNext ==
    \/ GetStats
          /\ UNCHANGED evVars
    \/ StatsTick
          /\ UNCHANGED evVars
    \/ \E c \in StatsCells, fail \in Fails :
          PlacePixel(c.x, c.y, c.color, "0xa", fail)
          /\ UNCHANGED evVars
    \/ \E list \in StatsLists, failAt \in 0 .. (MaxBatch + 2) :
          PlaceBatch(list, "0xa", failAt)
          /\ UNCHANGED evVars
    \/ \E c \in StatsCells, fail \in Fails :
          ErasePixel(c.x, c.y, "0xa", fail)
          /\ UNCHANGED evVars
    \/ \E fail \in {"none", "snapshot", "clear"} : ClearCanvas(fail)
          /\ UNCHANGED evVars
    \/ \E list \in StatsLists :
          \E failAt \in 0 .. (Len(list) + 2) : ImportCanvas(list, failAt)
          /\ UNCHANGED evVars

(***************************************************************************)
(* Part XI.  databaseAPI.getCanvasBinary (database.js:265-279): the Buffer *)
(* before it is written out in base64, as a sequence of bytes.             *)
(***************************************************************************)
\* Buffer.writeUInt16LE throws a RangeError outside 0 .. 2^16 - 1
uint16(v) == v >= 0 /\ v <= 65535

\* the two bytes writeUInt16LE writes, low byte first
writeUInt16LE(v) == <<v % 256, v \div 256>>

\* parseInt of the three pairs of hex digits of the colours of the model;
\* writeUInt8 writes 0 for the NaN of anything else
colorBytes(color) ==
    CASE color \in {"#ff0000", "#FF0000"} -> <<255, 0, 0>>
      [] color = "#0000ff" -> <<0, 0, 255>>
      [] color = "#123456" -> <<18, 52, 86>>
      [] OTHER -> <<0, 0, 0>>

\* the record of one cell
binaryRecord(p) == writeUInt16LE(p.x) \o writeUInt16LE(p.y) \o colorBytes(p.color)

RECURSIVE binaryLoop(_, _)
binaryLoop(c, n) ==
    IF n = 0 THEN <<>> ELSE binaryLoop(c, n - 1) \o binaryRecord(c[n].v)

\* ok: the call returned; bytes: the Buffer
getCanvasBinary(c) ==
    IF \E i \in 1 .. Len(c) : ~uint16(c[i].v.x) \/ ~uint16(c[i].v.y)
    THEN [ok |-> FALSE, bytes |-> <<>>]
    ELSE [ok |-> TRUE, bytes |-> binaryLoop(c, Len(c))]

(***************************************************************************)
(* Part XII.  The per-source table of Part III over connections that come, *)
(* are rejected, are closed by their peers and are terminated by the       *)
(* heartbeat, under the running clock; no connection sends a message or a  *)
(* pong.                                                                   *)
(***************************************************************************)
\* connection attempts of a behaviour
SlotSockets == 4

SlotRequests == {[xff |-> <<>>, remote |-> "A"]}

SlotTokens == {NULL, "bad", "good"}

SlotsNext ==
    \/ \E req \in SlotRequests, token \in SlotTokens :
          nextSock <= SlotSockets /\ Connect(req, token)
    \/ \E s \in Sockets : CloseEvent(s)
    \/ Heartbeat
    \/ WsTick

(***************************************************************************)
(* Part XIII.  The sends of broadcast() (part_009:199-210) inside          *)
(* handlePixel, connection by connection.  The connection of the           *)
(* originator is the first of wss.clients; redisPub is set.  A send to one *)
(* connection may fail:                                                    *)
(*   how = "event"   c.send returns and the failure is reported later, by  *)
(*                   the socket's 'error' event, which is logged           *)
(*   how = "throws"  c.send throws inside the forEach of broadcastLocal    *)
(***************************************************************************)
\* most work of a behaviour of the sends
SendWork == 2

eventTypes(evs) == [i \in 1 .. Len(evs) |-> evs[i].type]

\* the broadcast() calls that are begun: an exception leaves the try block
broadcastsBegun(evs, thrown) == IF thrown /\ Len(evs) > 0 THEN <<evs[1]>> ELSE evs

\* what broadcastLocal sends to connection c over the broadcast() calls evs
\* when the send to connection bad fails
broadcastLocalSends(evs, c, bad, how) ==
    IF peerState[c] # "open" \/ c = bad THEN <<>>
    ELSE IF bad # 0 /\ how = "throws" /\ peerState[bad] = "open"
    THEN IF c < bad /\ Len(evs) > 0 THEN <<evs[1].type>> ELSE <<>>
    ELSE eventTypes(evs)

\* redisPub.publish follows broadcastLocal in broadcast()
publishes(evs, thrown) == IF thrown THEN <<>> ELSE eventTypes(evs)

\* ws.on('message') with {type: 'pixel', data} from the first connection
OnPixelSends(user, data, fail, bad, how) ==
    /\ work < SendWork
    /\ peerState[1] = "open"
    /\ WsPixel(user, data, fail)
    /\ LET branch == handlePixelBranch(user, data)
           evs == handlePixelEvents(user, data, fail, TRUE)
           thrown == /\ Len(evs) > 0 /\ bad # 0 /\ how = "throws"
                     /\ peerState[bad] = "open"
       IN  /\ events' = events \o broadcastsBegun(evs, thrown)
           /\ sentTo' = [c \in SendConns |-> broadcastLocalSends(evs, c, bad, how)]
           /\ pubs' = publishes(evs, thrown)
           /\ failed' = IF Len(evs) > 0 /\ bad # 0 /\ peerState[bad] = "open" THEN bad ELSE 0
           /\ reply' = Answer("pixel", user.isAdmin, user.isAuthorized, 1,
                              IF branch \in {"erase", "place"}
                              THEN IF fail = "none" /\ ~thrown THEN send(TRUE, "none", "")
                                   ELSE send(TRUE, "error", "thrown")
                              ELSE send(TRUE, "error", branch))
    /\ UNCHANGED <<openMode, mwVars, peerState, sibVars>>

\* A connection other than the originator's goes away.
PeerCloses(c) ==
    /\ c # 1
    /\ peerState[c] = "open"
    /\ peerState' = [peerState EXCEPT ![c] = "closed"]
    /\ UNCHANGED <<storeVars, nonceVars, hostVars, fanVars, mwVars, sentTo, pubs, failed, sibVars>>

SendNext ==
    \/ \E user \in FanUsers, data \in FanData, fail \in FanFails :
          \E bad \in {0} \cup SendConns, how \in {"event", "throws"} :
              OnPixelSends(user, data, fail, bad, how)
    \/ \E c \in SendConns : PeerCloses(c)

(***************************************************************************)
(* Part XIV.  Two instances over one database file.  The store of Part I   *)
(* with its cache is instance A; instance B is a second process with the   *)
(* module state of database.js of its own (sibPixels, sibCount) and the    *)
(* subscription of part_009:32-39.  A serves the writes, without faults; B *)
(* handles the channel's messages and may be restarted.                    *)
(***************************************************************************)
\* most work of a behaviour of the two instances
SibWork == 3

SibCells == {[x |-> 0, y |-> 0], [x |-> 1, y |-> 0]}

SibColors == {"#ff0000", "#0000ff"}

\* redisPub.publish(CHANNEL, ...) of broadcast() on instance A
publish(channel, type) == Append(channel, type)

\* A write on A by placePixel, and its broadcast('pixel', ...).
SibPlace(cell, color, addr) ==
    /\ work < SibWork
    /\ placePixelTx(cell.x, cell.y, color, addr, "none")
    /\ sibInbox' = publish(sibInbox, "pixel")
    /\ UNCHANGED <<fanVars, mwVars, sendVars, sibPixels, sibCount, sibSent>>

\* An erase on A by erasePixel, and its broadcast('pixel', ...).
SibErase(cell, admin) ==
    /\ work < SibWork
    /\ eraseTx(cell.x, cell.y, admin, "none")
    /\ sibInbox' = publish(sibInbox, "pixel")
    /\ UNCHANGED <<fanVars, mwVars, sendVars, sibPixels, sibCount, sibSent>>

\* redisSub.on('message') on B, origin being A: broadcastLocal(type, data)
\* and nothing else.
OnSiblingMessage ==
    /\ sibInbox # <<>>
    /\ sibInbox' = Tail(sibInbox)
    /\ sibSent' = Append(sibSent, Head(sibInbox))
    /\ UNCHANGED <<storeVars, nonceVars, hostVars, fanVars, mwVars, sendVars,
                   sibPixels, sibCount>>

\* B ends and starts again: the cache load of initDatabase over the rows of
\* SELECT * FROM pixels, in an order of the engine's choosing.
SibRestart(rows) ==
    /\ rows \in RowOrders(pixels)
    /\ sibPixels' = loadRows(<<>>, rows, Len(rows))
    /\ sibCount' = Len(rows)
    /\ sibSent' = <<>>
    /\ UNCHANGED <<storeVars, nonceVars, hostVars, fanVars, mwVars, sendVars, sibInbox>>

SibNext ==
    \/ \E cell \in SibCells, color \in SibColors : SibPlace(cell, color, "0xa")
    \/ \E cell \in SibCells : SibErase(cell, "0xa")
    \/ OnSiblingMessage
    \/ \E rows \in RowOrders(pixels) : SibRestart(rows)

Next ==
    \/ \E x \in XS, y \in YS, color \in Colors, addr \in Addrs, fail \in Fails :
          PlacePixel(x, y, color, addr, fail)
          /\ UNCHANGED evVars
    \/ \E list \in PixelLists, addr \in Addrs, failAt \in 0 .. (MaxBatch + 2) :
          PlaceBatch(list, addr, failAt)
          /\ UNCHANGED evVars
    \/ \E x \in XS, y \in YS, admin \in Addrs, fail \in Fails :
          ErasePixel(x, y, admin, fail)
          /\ UNCHANGED evVars
    \/ \E fail \in {"none", "snapshot", "clear"} : ClearCanvas(fail)
          /\ UNCHANGED evVars
    \/ \E list \in PixelLists \cup {roundTrip.E} :
          \E failAt \in 0 .. (Len(list) + 2) : ImportCanvas(list, failAt)
          /\ UNCHANGED evVars
    \/ ExportCanvas
          /\ UNCHANGED evVars

Spec == Init /\ [][Next]_vars

SpecNonce == Init /\ [][NonceNext]_vars

SpecAdmit == Init /\ [][AdmitNext]_vars

SpecBeat == Init /\ [][BeatNext]_vars /\ WF_vars(WsTick) /\ WF_vars(Heartbeat)

SpecBcast == Init /\ [][BcNext]_vars

SpecEntry == Init /\ [][EntryNext]_vars

SpecBoot == Init /\ [][BootNext]_vars

SpecMw == Init /\ [][MwNext]_vars

SpecFan == InitFan /\ [][FanNext]_vars

SpecLog == Init /\ [][LogNext]_vars

SpecStats == Init /\ [][StatsNext]_vars

SpecSlots == Init /\ [][SlotsNext]_vars

SpecSend == Init /\ [][SendNext]_vars

SpecSib == Init /\ [][SibNext]_vars

(***************************************************************************)
(* Part I, properties.                                                     *)
(***************************************************************************)
tableCoords == {<<r.x, r.y>> : r \in pixels}

triplesOfTable == {[x |-> r.x, y |-> r.y, color |-> r.color] : r \in pixels}

triplesOf(list) == {list[i] : i \in 1 .. Len(list)}

\* the cache answers for (x, y) as the pixels table has it
mirrors(c, tbl, x, y) ==
    LET rows == {r \in tbl : r.x = x /\ r.y = y}
        v == getPixel(c, x, y)
    IN IF rows = {} THEN v = NoPixel
       ELSE \A r \in rows : v.color = r.color /\ v.placed_by = r.placed_by

\* C1: as long as no call has thrown, getPixelCount() equals the size of
\* the cache map, the number of rows of the pixels table and the number of
\* coordinates written and not erased since.
C1_CountAgrees ==
    faults = 0 =>
        /\ getPixelCount = Len(cachePixels)
        /\ getPixelCount = Cardinality(pixels)
        /\ getPixelCount = Cardinality(written)

\* C1 witness: two coordinates were written, one of them was then erased.
C1_Witness ==
    /\ faults = 0
    /\ ret.op = "erasePixel"
    /\ seq = 3
    /\ getPixelCount = 1

\* C2: right after a placePixel, placePixelsBatch or erasePixel that
\* returned, getPixel(x, y) returns for every coordinate the colour and
\* writer of the pixels-table row, and null where there is no row.
C2_ReadsMirrorTable ==
    (ret.op \in {"placePixel", "placeBatch", "erasePixel"} /\ ret.ok) =>
        \A x \in XS, y \in YS : mirrors(cachePixels, pixels, x, y)

\* the cell the batch leaves at the coordinate of its i-th entry
lastWrite(list, i) ==
    LET same == {j \in 1 .. Len(list) : list[j].x = list[i].x /\ list[j].y = list[i].y}
    IN list[CHOOSE j \in same : \A j2 \in same : j2 <= j]

\* C3: a placePixelsBatch of N cells that throws leaves no cell of the
\* batch, no log entry and no pixel_count increment visible; one that
\* returns leaves all N cells, N log entries and pixel_count + N.
C3_BatchAllOrNothing ==
    [][\A list \in PixelLists \ {<<>>}, addr \in Addrs, failAt \in 0 .. (MaxBatch + 2) :
          PlaceBatch(list, addr, failAt) =>
            IF failAt # 0
            THEN /\ pixels' = pixels
                 /\ history' = history
                 /\ users' = users
                 /\ \A i \in 1 .. Len(list) :
                       getPixel(cachePixels', list[i].x, list[i].y)
                           = getPixel(cachePixels, list[i].x, list[i].y)
            ELSE /\ \A i \in 1 .. Len(list) :
                       /\ getPixel(cachePixels', list[i].x, list[i].y)
                              = cacheEntry(list[i].x, list[i].y, lastWrite(list, i).color, addr)
                       /\ mirrors(cachePixels', pixels', list[i].x, list[i].y)
                 /\ seq' = seq + Len(list)
                 /\ \A i \in 1 .. Len(list) :
                       \E j \in 1 .. Len(history') :
                          history'[j] = [id |-> seq + i, x |-> list[i].x, y |-> list[i].y,
                                         color |-> list[i].color, placed_by |-> addr]
                 /\ userCount(users', addr) = userCount(users, addr) + Len(list)
      ]_vars

\* the part of C3 about a batch that returns
C3_BatchThatReturns ==
    [][\A list \in PixelLists \ {<<>>}, addr \in Addrs :
          PlaceBatch(list, addr, 0) =>
              /\ \A i \in 1 .. Len(list) :
                    /\ getPixel(cachePixels', list[i].x, list[i].y)
                           = cacheEntry(list[i].x, list[i].y, lastWrite(list, i).color, addr)
                    /\ mirrors(cachePixels', pixels', list[i].x, list[i].y)
              /\ seq' = seq + Len(list)
              /\ \A i \in 1 .. Len(list) :
                    \E j \in 1 .. Len(history') :
                       history'[j] = [id |-> seq + i, x |-> list[i].x, y |-> list[i].y,
                                      color |-> list[i].color, placed_by |-> addr]
              /\ userCount(users', addr) = userCount(users, addr) + Len(list)
      ]_vars

\* a step that is the second of two placePixel calls with the same
\* arguments, both of which return
secondOfTwo(x, y, color, addr) ==
    /\ ret.op = "placePixel" /\ ret.ok /\ ret.args = <<x, y, color, addr>>
    /\ PlacePixel(x, y, color, addr, "none")

placed(id, x, y, color, addr) ==
    [id |-> id, x |-> x, y |-> y, color |-> color, placed_by |-> addr]

\* C4 as claimed: placePixel(x, y, color, identity) called twice leaves the
\* cells, their colours and writers and getPixelCount() as one call leaves
\* them, the placement log two entries longer than before the first call
\* and the identity's pixel_count two higher.
C4_TwiceLikeOnce_LogTwoLonger ==
    [][\A x \in XS, y \in YS, color \in Colors, addr \in Addrs :
          secondOfTwo(x, y, color, addr) =>
              /\ pixels' = pixels
              /\ cachePixels' = cachePixels
              /\ cacheCount' = cacheCount
              /\ Len(history') = ret.logBefore + 2
              /\ userCount(users', addr) = ret.ucBefore + 2
      ]_vars

\* C4 as amended: the same for cells, count and pixel_count; two entries
\* are appended to the log: its sequence id advances by two and its two
\* newest entries record the two writes, while its size is at most two
\* more than before the first call (a prune check may truncate it).
C4_TwiceLikeOnce_TwoAppended ==
    [][\A x \in XS, y \in YS, color \in Colors, addr \in Addrs :
          secondOfTwo(x, y, color, addr) =>
              /\ pixels' = pixels
              /\ cachePixels' = cachePixels
              /\ cacheCount' = cacheCount
              /\ seq' = ret.seqBefore + 2
              /\ Len(history') >= 2
              /\ history'[Len(history')] = placed(seq', x, y, color, addr)
              /\ history'[Len(history') - 1] = placed(seq' - 1, x, y, color, addr)
              /\ Len(history') <= ret.logBefore + 2
              /\ userCount(users', addr) = ret.ucBefore + 2
      ]_vars

\* C4 witness: the second call has returned, and a prune has truncated the log.
C4_Witness ==
    /\ ret.op = "placePixel" /\ ret.repeat
    /\ Len(history) < seq

\* C5: once E = exportCanvas().pixels, clearCanvas() and importCanvas(E)
\* have run one after the other, the (x, y, color) triples of the pixels
\* table and of the cache are those of E, and getPixelCount() is their number.
C5_RoundTrip ==
    roundTrip.phase = "imported" =>
        /\ triplesOfTable = triplesOf(roundTrip.E)
        /\ triplesOf(getAllPixels(cachePixels)) = triplesOf(roundTrip.E)
        /\ getPixelCount = Cardinality(triplesOf(roundTrip.E))

\* C5 witness: a round trip of a grid with two occupied cells is complete.
C5_Witness ==
    /\ roundTrip.phase = "imported"
    /\ Len(roundTrip.E) = 2

(***************************************************************************)
(* Part II, properties.                                                    *)
(***************************************************************************)

\* The identity an address names, whatever its spelling, and the pair a
\* replay record stands for.
sameLetter(c1, c2) == c1 = c2 \/ {c1, c2} \in {{"A", "a"}, {"B", "b"}}

sameIdentity(a1, a2) ==
    Len(a1) = Len(a2) /\ \A n \in 1 .. Len(a1) : sameLetter(a1[n], a2[n])

samePair(p, q) == sameIdentity(p[1], q[1]) /\ p[2] = q[2]

inWindow(ts, t) == ~ts.nan /\ t - ts.val <= MAX_SKEW /\ ts.val - t <= MAX_SKEW

\* C6: on an instance with the local store only, checkAndUseNonce returns
\* valid exactly when the timestamp parses and lies within five minutes of
\* now on either side and the key of the pair is not in the store; it returns
\* expired_timestamp whenever the timestamp does not parse or lies outside
\* the window, whatever the store holds, and nonce_reused when the timestamp
\* is in the window and the key is present; two pairs have the same key
\* exactly when they have the same nonce and addresses that differ at most in
\* the case of their letters.
C6_LocalDecision ==
    [][\A i \in Instances, p \in Pairs : \A timestamp \in Timestamps(now) :
          (~redisClient[i] /\ CheckAndUseNonce(started + 1, i, p[1], p[2], timestamp)) =>
              LET ts == parseInt(timestamp)
                  present == \E q \in Pairs : samePair(p, q) /\ key(q[1], q[2]) \in DOMAIN store[i]
                  res == slots'[started + 1].res
              IN  /\ res = "valid" <=> (inWindow(ts, now) /\ ~present)
                  /\ ~inWindow(ts, now) => res = "expired_timestamp"
                  /\ (inWindow(ts, now) /\ present) => res = "nonce_reused"
                  /\ \A q \in Pairs : (key(p[1], p[2]) = key(q[1], q[2])) <=> samePair(p, q)
      ]_vars

\* An address in another spelling is refused as reused, the same nonce under
\* another identity is accepted, all on one instance without a backend.
C6_Witness ==
    /\ \A i \in Instances : ~redisClient[i]
    /\ slots[1].res = "valid" /\ slots[2].res = "nonce_reused"
    /\ slots[1].inst = slots[2].inst
    /\ slots[1].address # slots[2].address

byLocalTable(a) == a.via \in {"local", "fallback"}

raced(s, t) ==
    /\ s # t
    /\ slots[s].pc = "done" /\ slots[t].pc = "done"
    /\ slots[s].k = slots[t].k
    /\ t \in slots[s].overlap /\ s \in slots[t].overlap
    /\ \A a \in accepted : a.k = slots[s].k => a.call \in {s, t}

oneWinner(s, t) ==
    \/ slots[s].res = "valid" /\ slots[t].res = "nonce_reused"
    \/ slots[s].res = "nonce_reused" /\ slots[t].res = "valid"

\* C8 as stated: two calls with the same fresh pair and valid timestamps that
\* were both at the await at the same time return valid once and nonce_reused
\* once.
C8_RaceOneWinner ==
    \A s, t \in Slots : raced(s, t) => oneWinner(s, t)

\* C8, amended: the same, provided the backend answered both calls, or threw
\* for both on one instance.
C8_RaceOneWinnerOneTable ==
    \A s, t \in Slots :
        (/\ raced(s, t)
         /\ \/ slots[s].via = "redis" /\ slots[t].via = "redis"
            \/ /\ slots[s].via = "fallback" /\ slots[t].via = "fallback"
               /\ slots[s].inst = slots[t].inst)
        => oneWinner(s, t)

\* Two instances raced for a pair and the backend answered both.
C8_Witness ==
    /\ raced(1, 2)
    /\ slots[1].inst # slots[2].inst
    /\ slots[1].via = "redis" /\ slots[2].via = "redis"
    /\ slots[1].res = "nonce_reused"

\* The replay record of an acceptance is gone: expired in the backend, or
\* not in the Map of the instance whose local table accepted.
recordGone(a) ==
    IF a.via = "redis" THEN ~redisLive(redis, a.k, now)
    ELSE a.k \notin DOMAIN store[a.inst]

\* C9: whenever the replay record of an accepted (identity, nonce, ts) is
\* gone, ts is more than five minutes from now, so that presenting the
\* triple again is refused as expired_timestamp.
C9_GoneMeansStale ==
    \A a \in accepted :
        recordGone(a) => /\ abs(now - a.ts) > MAX_SKEW
                         /\ expired([nan |-> FALSE, val |-> a.ts], now)

\* A timestamp five minutes ahead of the clock was accepted by the backend,
\* another by a local table, and both records are gone.
C9_Witness ==
    \E a, b \in accepted :
        /\ a.via = "redis" /\ byLocalTable(b)
        /\ a.ts > a.at /\ b.ts > b.at
        /\ recordGone(a) /\ recordGone(b)

\* C10: when the set-if-not-exists call of a call throws, the call (which
\* reached the backend only with a timestamp in the window) returns what the
\* local table of its instance says: valid for a pair it has not seen, which
\* it then records, nonce_reused for one it has.
C10_ThrowFallsThrough ==
    [][\A s \in Slots :
          RedisThrows(s) =>
              LET c == slots[s]
                  seen == c.k \in DOMAIN store[c.inst]
              IN  /\ redisClient[c.inst]
                  /\ inWindow(c.ts, c.now0)
                  /\ slots'[s].res = IF seen THEN "nonce_reused" ELSE "valid"
                  /\ c.k \in DOMAIN store'[c.inst]
      ]_vars

\* The backend threw for two calls with one pair on one instance: the local
\* table accepted the first and refused the second.
C10_Witness ==
    /\ slots[1].via = "fallback" /\ slots[1].res = "valid"
    /\ slots[2].via = "fallback" /\ slots[2].res = "nonce_reused"

(***************************************************************************)
(* Part III, properties.                                                   *)
(***************************************************************************)

\* the connections of a source that were admitted and whose close event has
\* not been emitted
heldBy(sk, ip) == {s \in Sockets : sk[s].listening /\ sk[s].ip = ip}

IPs == {clientIP(req) : req \in Requests}

capReasons == {"Too many connections", "Server full"}

perSourceBound(sk) == \A ip \in IPs : Cardinality(heldBy(sk, ip)) <= MAX_PER_IP

\* C11 as stated: no source ever holds more than MAX_PER_IP connections; an
\* attempt from a source that holds MAX_PER_IP is closed with the reason
\* 'Too many connections'; an attempt from a source that holds fewer, while
\* wss.clients with the attempt is below MAX_TOTAL, is admitted.
C11_PerSourceCap ==
    [][/\ perSourceBound(socks')
       /\ \A req \in Requests, token \in Tokens :
             Connect(req, token) =>
                 LET held == Cardinality(heldBy(socks, clientIP(req)))
                     after == socks'[nextSock]
                 IN  /\ held >= MAX_PER_IP =>
                            after.state = "closing" /\ after.reason = "Too many connections"
                     /\ (held < MAX_PER_IP /\ Cardinality(clients) + 1 < MAX_TOTAL) =>
                            after.state = "open"
      ]_vars

\* C11, amended: no source ever holds more than MAX_PER_IP connections; an
\* attempt from a source that holds MAX_PER_IP is closed, with the reason
\* 'Too many connections' while wss.clients with the attempt is below
\* MAX_TOTAL and 'Server full' otherwise; an attempt from a source that
\* holds fewer, while wss.clients with the attempt is below MAX_TOTAL, is
\* closed for neither cap whatever the other sources hold: it is admitted
\* unless it carries a token that does not verify.
C11_PerSourceCapBelowTotal ==
    [][/\ perSourceBound(socks')
       /\ \A req \in Requests, token \in Tokens :
             Connect(req, token) =>
                 LET held == Cardinality(heldBy(socks, clientIP(req)))
                     below == Cardinality(clients) + 1 < MAX_TOTAL
                     after == socks'[nextSock]
                 IN  /\ held >= MAX_PER_IP =>
                            /\ after.state = "closing"
                            /\ after.reason = IF below THEN "Too many connections"
                                              ELSE "Server full"
                     /\ (held < MAX_PER_IP /\ below) =>
                            /\ after.reason \notin capReasons
                            /\ after.state = "open" <=> (token = NULL \/ jwtVerify(token).ok)
      ]_vars

\* Source A holds MAX_PER_IP connections, a further attempt of A is being
\* closed for it, and a later attempt of another source is open.
C11_Witness ==
    \E s, t \in Sockets :
        /\ s < t
        /\ socks[s].state = "closing" /\ socks[s].reason = "Too many connections"
        /\ socks[t].state = "open" /\ socks[t].ip = "B"
        /\ Cardinality(heldBy(socks, "A")) = MAX_PER_IP

\* C12 as stated: an attempt is closed with 'Server full' exactly when the
\* instance holds MAX_TOTAL other sockets in wss.clients at that time.
C12_ServerFullIffAtCap ==
    [][\A req \in Requests, token \in Tokens :
          Connect(req, token) =>
              (socks'[nextSock].reason = "Server full" <=> Cardinality(clients) >= MAX_TOTAL)
      ]_vars

\* C13: a connection that stays silent after it was admitted, early enough
\* for the clock of the model to reach the tick, is terminated; and at every
\* heartbeat tick a silent open connection is terminated exactly if more than
\* 60 seconds have passed since it was admitted, so that the first such tick
\* terminates it.
C13_SilentIsTerminated ==
    /\ \A s \in Sockets :
          (/\ socks[s].state = "open" /\ socks[s].quiet
           /\ socks[s].admittedAt + IDLE_LIMIT + HEARTBEAT_INTERVAL <= WsMaxNow)
          ~> (socks[s].reason = "terminated" \/ socks[s].state = "closed" \/ ~socks[s].quiet)
    /\ [][Heartbeat =>
             \A s \in Sockets :
                 (socks[s].state = "open" /\ socks[s].quiet) =>
                     (socks'[s].reason = "terminated" <=> now - socks[s].admittedAt > IDLE_LIMIT)
         ]_vars

\* A silent connection has just been terminated, at the first tick more than
\* 60 seconds after its admission.
C13_Witness ==
    \E s \in Sockets :
        /\ socks[s].reason = "terminated" /\ socks[s].quiet
        /\ now = nextBeat - HEARTBEAT_INTERVAL
        /\ now - socks[s].admittedAt > IDLE_LIMIT
        /\ now - socks[s].admittedAt <= IDLE_LIMIT + HEARTBEAT_INTERVAL

\* C14: a heartbeat tick terminates a connection only if its isAlive is
\* false and more than 60 seconds have passed since its lastActivity, and
\* then at least the last two probes sent to it were not answered.
C14_TerminatedOnlyIfIdle ==
    [][Heartbeat =>
          \A s \in Sockets :
              (socks'[s].reason = "terminated" /\ socks[s].reason # "terminated") =>
                  /\ ~socks[s].isAlive
                  /\ now - socks[s].lastActivity > IDLE_LIMIT
                  /\ socks[s].missed >= 2
      ]_vars

\* A connection that had answered a probe and then stopped was terminated.
C14_Witness ==
    \E s \in Sockets :
        socks[s].reason = "terminated" /\ ~socks[s].quiet /\ socks[s].missed = 2

\* C15 as stated: every inbound message, whatever its content, sets isAlive
\* and refreshes lastActivity.
C15_AnyMessageIsActivity ==
    [][\A s \in Sockets, raw \in RawMessages :
          Message(s, raw) => socks'[s].isAlive /\ socks'[s].lastActivity = now
      ]_vars

(***************************************************************************)
(* Part IV, properties.                                                    *)
(***************************************************************************)

\* C16: broadcast() on an instance sends the message once to each of its
\* open connections; when the instance receives its own message back from
\* the channel it sends nothing; so no connection of the publishing instance
\* is ever sent the message twice.
C16_OwnMessageOnce ==
    [][\A i \in Instances, p \in Pids :
          /\ \A ok \in BOOLEAN :
                Broadcast(i, p, ok) =>
                    \A c \in Conns :
                        delivered'[i][c][Len(calls) + 1] = IF c \in wsOpen[i] THEN 1 ELSE 0
          /\ (Receive(i, p) /\ calls[Head(inbox[i]).call] = i) =>
                (delivered' = delivered /\ \A c \in Conns : delivered[i][c][Head(inbox[i]).call] <= 1)
      ]_vars

\* An instance has received its own message back, and its connection holds
\* the one send of the broadcast() call.
C16_Witness ==
    \E i \in Instances :
        /\ Len(calls) = 1 /\ calls[1] = i
        /\ published[1] = 1
        /\ inbox[i] = <<>>
        /\ \A c \in Conns : delivered[i][c][1] = 1

\* C17 as stated: a sibling that receives the channel message of another
\* instance's broadcast() sends it once to each of its open connections, and
\* a broadcast() call puts at most one message on the channel, receipts
\* putting none.
C17_SiblingsDeliverOnce ==
    [][/\ \A i \in Instances, p \in Pids :
             (Receive(i, p) /\ calls[Head(inbox[i]).call] # i) =>
                 /\ published' = published
                 /\ \A c \in wsOpen[i] : delivered'[i][c][Head(inbox[i]).call] = 1
       /\ \A n \in Calls : published'[n] <= 1
      ]_vars

(***************************************************************************)
(* Part I, properties of the placement log.                                *)
(***************************************************************************)

\* C18 as stated: every mutation that inserts placement-log entries, of any
\* kind (single place, batch, erase), counts towards the prune check, so that
\* a check is reached within PRUNE_CHECK_INTERVAL such mutations; and the
\* check leaves at most HISTORY_MAX_ENTRIES entries in the log.
C18_EveryMutationReachesPrune ==
    [][seq' > seq =>
          /\ placementsSincePrune' = (placementsSincePrune + 1) % PRUNE_CHECK_INTERVAL
          /\ placementsSincePrune' = 0 => Len(history') <= HISTORY_MAX_ENTRIES
      ]_vars

(***************************************************************************)
(* Part V, properties.                                                     *)
(***************************************************************************)

\* C19 as stated: whichever entry path delivered the writes, every row of
\* the pixels table and every entry of the cache has coordinates inside the
\* grid, and getPixelCount() is at most width * height.
C19_CellsInsideGrid ==
    /\ \A r \in pixels : inBounds(r.x, r.y)
    /\ \A i \in 1 .. Len(cachePixels) : inBounds(cachePixels[i].v.x, cachePixels[i].v.y)
    /\ getPixelCount <= Width * Height

(***************************************************************************)
(* Part VI, properties.                                                    *)
(***************************************************************************)

\* the cache map holds exactly one entry per row of the table, under the
\* row's key and with the row's color
cacheMirrors(tbl, c) ==
    /\ Len(c) = Cardinality(tbl)
    /\ \A r \in tbl :
          /\ cacheHas(c, cacheKey(r.x, r.y))
          /\ getPixel(c, r.x, r.y).color = r.color

\* C20 as stated: when initDatabase() completes, the cache map holds exactly
\* one entry per row of the pixels table with the row's color, and
\* cache.count is the number of rows, whether the table had rows or a backup
\* was imported into the empty table.
C20_CacheRebuiltFromTable ==
    [][\A backup \in Backups, failAt \in 0 .. (MaxBackup + 1) :
          \A rows \in RowOrders(pixels) :
              (InitDatabase(rows, backup, failAt) /\ dbInitialized') =>
                  /\ cacheMirrors(pixels', cachePixels')
                  /\ cacheCount' = Cardinality(pixels')
      ]_vars

(***************************************************************************)
(* Part I, properties of the snapshots.                                    *)
(***************************************************************************)

\* the occupied cells of the pixels table, as a snapshot lists them
occupied(tbl) == {[x |-> r.x, y |-> r.y, color |-> r.color] : r \in tbl}

listed(snap) == {snap[i] : i \in 1 .. Len(snap)}

\* C21 as stated: snapshot rows are only ever appended; and every clear or
\* import of the canvas service that deletes or overwrites anything has
\* first appended a snapshot row that lists exactly the occupied cells of
\* the pixels table at that moment.
C21_SnapshotBeforeDestruction ==
    [][/\ Len(snapshots') >= Len(snapshots)
       /\ SubSeq(snapshots', 1, Len(snapshots)) = snapshots
       /\ (/\ ret'.op \in {"clearCanvas", "importCanvas"}
           /\ (pixels' # pixels \/ cachePixels' # cachePixels)) =>
              /\ Len(snapshots') = Len(snapshots) + 1
              /\ listed(snapshots'[Len(snapshots')]) = occupied(pixels)
              /\ Len(snapshots'[Len(snapshots')]) = Cardinality(pixels)
      ]_vars

(***************************************************************************)
(* Part VII, properties.                                                   *)
(***************************************************************************)
\* the word that follows the first space of the Authorization header, ""
\* when there is none
secondWord(h) ==
    LET v == h.value
        spaces == {i \in 1 .. Len(v) : v[i] = " "}
        first == CHOOSE i \in spaces : \A j \in spaces : i <= j
        after == {i \in spaces : i > first}
        last == IF after = {} THEN Len(v)
                ELSE (CHOOSE i \in after : \A j \in after : i <= j) - 1
    IN  IF ~h.present \/ spaces = {} \/ last = first THEN ""
        ELSE IF last = first + 1 THEN v[last]
        ELSE "t.forged"

\* C28: authenticateToken calls next() exactly when the Authorization header
\* carries a token that verifies, and then req.user holds the token's
\* address, chainId, isAuthorized and isAdmin; with no token the response is
\* 401 NO_TOKEN, with an expired token 401 TOKEN_EXPIRED, with any other
\* invalid token 403 INVALID_TOKEN, and then next() is not called and
\* req.user is not set.
C28_AuthenticateTokenContract ==
    [][chain = "authenticateToken" =>
         LET word == secondWord(httpReq.headers)
             token == payloadOf(word)
         IN  /\ (chain' = "requireAuthorization") <=> (word \in SignedTokens)
             /\ word \in SignedTokens =>
                   /\ httpReq'.user.set
                   /\ httpReq'.user.address = token.address
                   /\ httpReq'.user.chainId = token.chainId
                   /\ httpReq'.user.isAuthorized = token.isAuthorized
                   /\ httpReq'.user.isAdmin = token.isAdmin
                   /\ httpRes' = NoRes
             /\ word = "" => httpRes' = [status |-> 401, code |-> "NO_TOKEN"]
             /\ word = "t.expired" => httpRes' = [status |-> 401, code |-> "TOKEN_EXPIRED"]
             /\ word \notin SignedTokens \cup {"", "t.expired"} =>
                   httpRes' = [status |-> 403, code |-> "INVALID_TOKEN"]
             /\ word \notin SignedTokens =>
                   chain' = "responded" /\ ~httpReq'.user.set
      ]_vars

\* the token of an admin without authorization has verified
C28_Witness ==
    /\ chain = "requireAuthorization"
    /\ httpReq.user.set /\ httpReq.user.isAdmin /\ ~httpReq.user.isAuthorized

\* the checks of validatePixel as the claim lists them
firstFailingCheck(b) ==
    LET xNum == parseInt(String(b.x))
        yNum == parseInt(String(b.y))
    IN  CASE b.x.t = "undefined" \/ b.y.t = "undefined" \/ b.color = "" -> "VALIDATION_ERROR"
          [] OTHER ->
        CASE xNum.nan \/ yNum.nan -> "INVALID_COORDINATES"
          [] OTHER ->
        CASE xNum.val \notin 0 .. (Width - 1) \/ yNum.val \notin 0 .. (Height - 1) -> "OUT_OF_BOUNDS"
          [] OTHER ->
        CASE b.color \notin {"#ff0000", "#FF0000", "#123456"} -> "INVALID_COLOR"
          [] OTHER ->
        CASE b.color \notin {"#ff0000", "#FF0000"} -> "COLOR_NOT_IN_PALETTE"
          [] OTHER -> ""

\* C29 as stated: validatePixel calls next() only for a request whose x and y
\* parse to integers inside the grid and whose color is a #RRGGBB value of
\* the palette, after rewriting x and y to integers and color to lower case;
\* otherwise it throws a 400 error with the code of the first failing check
\* and neither calls next() nor modifies the request body.
C29_ValidatePixelContract ==
    [][chain = "validatePixel" =>
         LET b == httpReq.body
             failing == firstFailingCheck(b)
         IN  /\ (chain' = "handler") <=> (failing = "")
             /\ failing = "" =>
                   /\ httpReq'.body.x = Num(parseInt(String(b.x)).val)
                   /\ httpReq'.body.y = Num(parseInt(String(b.y)).val)
                   /\ httpReq'.body.color = "#ff0000"
             /\ failing # "" =>
                   /\ httpRes' = [status |-> 400, code |-> failing]
                   /\ httpReq' = httpReq
      ]_vars

(***************************************************************************)
(* Part VIII, properties.                                                  *)
(***************************************************************************)
clearedEvent == [type |-> "cleared", cells |-> <<>>]

\* C22 as stated: after every successful clearCanvas a 'cleared' event is
\* broadcast (to the open local connections and the sibling instances, which
\* is what a broadcast() call does).
C22_ClearedIsBroadcast ==
    [][/\ reply'.req = "DELETE /canvas"
       /\ ret'.op = "clearCanvas" /\ ret'.ok
       /\ Len(snapshots') = Len(snapshots) + 1
       => /\ Len(events') > Len(events)
          /\ \E i \in (Len(events) + 1) .. Len(events') : events'[i] = clearedEvent
      ]_vars

\* the log entries a step appends, as the cells of a change event
\* (color null for an erased cell)
committedCells ==
    LET new == SelectSeq(history', LAMBDA e : e.id > seq)
    IN  [i \in 1 .. Len(new) |->
            [x |-> new[i].x, y |-> new[i].y,
             color |-> IF new[i].color = ERASED THEN NULL ELSE new[i].color]]

\* the change events (pixel, batch, cleared) among the broadcast() calls
changes(evs) == SelectSeq(evs, LAMBDA e : e.type # "status")

\* C23: every place, batch or erase that commits, over WebSocket or HTTP, is
\* followed in the same handler run, before any other request is handled, by
\* a broadcast() of that change, whether or not the originating socket is
\* still open; the commit stands.
C23_CommitIsBroadcast ==
    [][seq' > seq =>
         /\ Len(events') > Len(events)
         /\ SubSeq(events', 1, Len(events)) = events
         /\ events'[Len(events) + 1].type \in {"pixel", "batch"}
         /\ events'[Len(events) + 1].cells = committedCells
         /\ Len(changes(events')) = Len(changes(events)) + 1
         /\ Len(committedCells) = seq' - seq
      ]_vars

\* a cell placed over a socket that had closed has been broadcast
C23_Witness ==
    /\ reply.req = "pixel" /\ ~reply.open
    /\ ret.op = "placePixel" /\ ret.ok
    /\ Len(events) >= 2
    /\ events[Len(events) - 1] = pixelEvent(1, 0, "#0000ff")

\* the cells a client holds after the events evs, starting from cells
RECURSIVE applyCells(_, _, _)
applyCells(cells, list, n) ==
    IF n = 0 THEN cells
    ELSE LET before == applyCells(cells, list, n - 1)
             others == {c \in before : ~(c.x = list[n].x /\ c.y = list[n].y)}
         IN  IF list[n].color = NULL THEN others ELSE others \cup {list[n]}

RECURSIVE replay(_, _)
replay(evs, n) ==
    IF n = 0 THEN {}
    ELSE IF evs[n].type = "cleared" THEN {}
    ELSE applyCells(replay(evs, n - 1), evs[n].cells, Len(evs[n].cells))

\* C24 as stated: the change events of the instance are, in order, exactly
\* its committed mutations, one event for each, and replaying them gives
\* the cells of the cache.
C24_EventsAreTheCommits ==
    [][/\ SubSeq(events', 1, Len(events)) = events
       /\ IF seq' > seq
          THEN /\ Len(changes(events')) = Len(changes(events)) + 1
               /\ events'[Len(events) + 1].cells = committedCells
          ELSE changes(events') = changes(events)
       /\ replay(events', Len(events')) = listed(getAllPixels(cachePixels'))
      ]_vars

\* C25 as stated: a 'pixel' or 'batch' message that commits nothing has an
\* 'error' message sent to its (open) originator, unparsable messages and
\* batches without a valid entry included.
C25_NoSilentDrop ==
    [][/\ reply'.req \in {"pixel", "batch", "unparsable"}
       /\ reply'.open
       /\ seq' = seq
       => reply'.type = "error"
      ]_vars

\* the coordinates that hold a cell
cellsAt(tbl) == {<<r.x, r.y>> : r \in tbl}

C27_UnauthorizedWritesNothing ==
    [][~openMode /\ ~reply'.authorized =>
         /\ pixels' = pixels
         /\ cachePixels' = cachePixels
         /\ history' = history /\ seq' = seq
         /\ reply'.req \in {"pixel", "batch"} /\ reply'.open =>
               reply'.type = "error" /\ reply'.code = "AUTH_REQUIRED"
      ]_vars

\* C30 as stated: no batch, over HTTP or WebSocket, commits more cells than
\* the limit, and a batch of more entries is rejected and changes nothing.
C30_BatchLimit ==
    [][reply'.req \in {"batch", "POST /pixels/batch"} =>
         /\ seq' - seq <= HTTP_BATCH_MAX
         /\ reply'.size > HTTP_BATCH_MAX =>
               UNCHANGED <<pixels, cachePixels, cacheCount, history, seq>>
      ]_vars

(***************************************************************************)
(* Part IX, properties.                                                    *)
(***************************************************************************)

\* C32: in every reachable state the placement log holds at most
\* HISTORY_MAX_ENTRIES + PRUNE_CHECK_INTERVAL entries, whatever the mix of
\* single placements, batches and erasures.
C32_LogBounded == Len(history) <= HISTORY_MAX_ENTRIES + PRUNE_CHECK_INTERVAL

(***************************************************************************)
(* Part I, properties of a prune.                                          *)
(***************************************************************************)
\* the step deleted rows of pixel_history
pruned == Len(history') < Len(history) + (seq' - seq)

\* the rows a step appended and kept
appended == SelectSeq(history', LAMBDA e : e.id > seq)

\* the pixels table after the cells of the log rows h[1..n] are set
RECURSIVE tableAfter(_, _, _)
tableAfter(tbl, h, n) ==
    IF n = 0 THEN tbl
    ELSE setPixel(tableAfter(tbl, h, n - 1), h[n].x, h[n].y, h[n].color, h[n].placed_by)

\* the cache Map after the cells of the log rows h[1..n] are set
RECURSIVE cacheAfter(_, _, _)
cacheAfter(c, h, n) ==
    IF n = 0 THEN c
    ELSE cacheSet(cacheAfter(c, h, n - 1), cacheKey(h[n].x, h[n].y),
                  cacheEntry(h[n].x, h[n].y, h[n].color, h[n].placed_by))

\* C33: a prune leaves exactly the HISTORY_MAX_ENTRIES rows with the highest
\* ids, in insertion order with strictly increasing ids; every row that was
\* in the log before and remains is unmodified; and the pixels table, the
\* cache and cache.count are what the cells placed by the same call make
\* them, the prune changing none of the three.
C33_PruneKeepsNewest ==
    [][pruned =>
          /\ Len(history') = HISTORY_MAX_ENTRIES
          /\ \A i \in 1 .. Len(history') : history'[i].id = seq' - Len(history') + i
          /\ \A i \in 1 .. Len(history') :
                history'[i].id <= seq =>
                    \E j \in 1 .. Len(history) : history[j] = history'[i]
          /\ Len(appended) = seq' - seq =>
                /\ pixels' = tableAfter(pixels, appended, Len(appended))
                /\ cachePixels' = cacheAfter(cachePixels, appended, Len(appended))
                /\ cacheCount' = cacheCount + Len(cachePixels') - Len(cachePixels)
      ]_vars

\* the last call placed cells, ran the check and deleted rows of the log
C33_Witness ==
    /\ ret.ok /\ ret.op \in {"placePixel", "placeBatch"}
    /\ placementsSincePrune = 0
    /\ ret.logBefore + (seq - ret.seqBefore) > Len(history)
    /\ Len(history) = HISTORY_MAX_ENTRIES
    /\ history[1].id > 1

(***************************************************************************)
(* Part I, properties of a call that throws.                               *)
(***************************************************************************)
\* the step is a placePixel, placePixelsBatch or erasePixel call that threw
threw ==
    /\ faults' > faults
    /\ ret'.op \in {"placePixel", "placeBatch", "erasePixel"}

\* C37: a placePixel, placePixelsBatch or erasePixel call that throws, its
\* transaction rolled back, leaves the cache Map and cache.count as they were
\* before the call, so that they still agree with the pixels table when they
\* did before.
C37_ThrowLeavesCache ==
    [][threw =>
          /\ UNCHANGED <<pixels, history, seq, users>>
          /\ cachePixels' = cachePixels
          /\ cacheCount' = cacheCount
          /\ cacheMirrors(pixels, cachePixels) => cacheMirrors(pixels', cachePixels')
      ]_vars

(***************************************************************************)
(* Part I, properties of cache.count.                                      *)
(***************************************************************************)
\* the step is an erasePixel that returned, on a coordinate for which neither
\* the pixels table nor the cache holds a cell
erasedNothing ==
    /\ ret'.op = "erasePixel" /\ ret'.ok /\ seq' = seq + 1
    /\ LET e == history'[Len(history')]
       IN /\ ~\E r \in pixels : r.x = e.x /\ r.y = e.y
          /\ ~cacheHas(cachePixels, cacheKey(e.x, e.y))

\* C40: erasePixel on a coordinate that holds no cell changes neither the
\* pixels table nor the cache map nor cache.count and appends one 'ERASED'
\* row to the log; cache.count is never negative; placePixel and
\* placePixelsBatch never decrease it.
C40_CountNeverNegative ==
    [][/\ erasedNothing =>
             /\ UNCHANGED <<pixels, cachePixels, cacheCount>>
             /\ Len(history') = Len(history) + 1
             /\ history'[Len(history')].color = ERASED
       /\ cacheCount' >= 0
       /\ ret'.op \in {"placePixel", "placeBatch"} => cacheCount' >= cacheCount
      ]_vars

(***************************************************************************)
(* Part X, properties.                                                     *)
(***************************************************************************)
\* the step is a getStats call
statsCall == ret'.op = "getStats" /\ ret'.args[2] = now /\ now' = now

\* the call before was a place, batch, erase, clear or bulk import that committed
committedMutation ==
    /\ ret.ok
    /\ \/ ret.op \in {"placePixel", "erasePixel", "clearCanvas", "importCanvas"}
       \/ ret.op = "placeBatch" /\ seq > ret.seqBefore

\* C35: getStats() called after a committed place, batch, erase, clear or
\* bulk import computes its result anew, with total_pixels equal to
\* getPixelCount() and total_placements equal to the size of the log; every
\* getStats() returns the current size of the log, and the current
\* getPixelCount() as long as no call has thrown; and what it returns was
\* computed less than 5 seconds before.
C35_StatsFreshAfterCommit ==
    [][statsCall =>
          LET result == ret'.args[1]
          IN /\ result = statsCache'.data
             /\ result.total_placements = Len(history)
             /\ (faults = 0 \/ committedMutation) => result.total_pixels = getPixelCount
             /\ committedMutation => statsCache'.ts = now
             /\ now - statsCache'.ts < STATS_TTL
      ]_vars

\* a getStats call some time after start-up has returned counts it computed anew
C35_Witness ==
    /\ ret.op = "getStats"
    /\ ret.args[1].total_pixels > 0
    /\ ret.args[1].total_placements > ret.args[1].total_pixels
    /\ statsCache.ts = ret.args[2]
    /\ statsCache.ts > Epoch

(***************************************************************************)
(* Part XI, properties.                                                    *)
(***************************************************************************)
\* C36: in every reachable state getCanvasBinary() returns, with 7 bytes per
\* occupied cell, 7 * getPixelCount() in all, the cells once each in the
\* iteration order of the cache, x and y of each cell read back from its two
\* 16-bit fields.
C36_BinaryOfEveryCell ==
    LET b == getCanvasBinary(cachePixels)
        at(i, k) == b.bytes[7 * (i - 1) + k]
    IN /\ b.ok
       /\ Len(b.bytes) = 7 * getPixelCount
       /\ \A i \in 1 .. Len(cachePixels) :
             /\ at(i, 1) + 256 * at(i, 2) = cachePixels[i].v.x
             /\ at(i, 3) + 256 * at(i, 4) = cachePixels[i].v.y
             /\ <<at(i, 5), at(i, 6), at(i, 7)>> = colorBytes(cachePixels[i].v.color)

(***************************************************************************)
(* Part II, properties of a rejected call.                                 *)
(***************************************************************************)
\* call s returns in this step
returns(s) == slots[s].pc # "done" /\ slots'[s].pc = "done"

\* C39: a call rejected with expired_timestamp or with nonce_reused changes
\* neither the Map of any instance nor the records of the shared backend, so
\* no rejection consumes a nonce or refreshes its record: a call with an
\* in-window timestamp whose (identity, nonce) no call has been accepted with
\* is accepted.
C39_RejectionChangesNothing ==
    [][\A s \in Slots :
          returns(s) =>
             /\ slots'[s].res \in {"expired_timestamp", "nonce_reused"} =>
                    store' = store /\ redis' = redis
             /\ (/\ slots'[s].res # "expired_timestamp"
                 /\ ~\E a \in accepted : a.k = slots'[s].k) =>
                    slots'[s].res = "valid"
      ]_vars

\* a call was rejected for its timestamp and the next call, with the same
\* identity and nonce and an in-window timestamp, was accepted
C39_Witness ==
    \E s, t \in Slots :
        /\ s < t
        /\ slots[s].pc = "done" /\ slots[s].res = "expired_timestamp"
        /\ slots[t].pc = "done" /\ slots[t].res = "valid"
        /\ slots[s].k = slots[t].k

(***************************************************************************)
(* Part XII, properties.                                                   *)
(***************************************************************************)
\* the admitted connections from ip whose close event has not been emitted
openFrom(sk, ip) ==
    {s \in Sockets : sk[s].listening /\ sk[s].state \in {"open", "closing"} /\ sk[s].ip = ip}

\* connsByIP.get(ip), the empty set when the Map has no such key
tableOf(m, ip) == IF ip \in DOMAIN m THEN m[ip] ELSE {}

\* C38: connsByIP[ip] is exactly the set of admitted connections from ip
\* that are not yet closed.  An attempt rejected for a cap adds nothing to
\* the table, is sent no welcome and has no token verified; an attempt closed
\* for an invalid token is not in the table afterwards and is sent no
\* welcome; the close event of a connection, whether its peer closed it or
\* the heartbeat terminated it, takes exactly that connection out of the
\* table.  An attempt is rejected with 'Too many connections' only while its
\* source holds MAX_PER_IP connections, so that once a closure has freed a
\* slot an attempt from the source is admitted again (it passes both caps
\* while wss.clients is below MAX_TOTAL, and is welcomed and entered in the
\* table unless its token is invalid).
C38_TableIsTheOpenConnections ==
    [][/\ \A ip \in IPs : tableOf(connsByIP', ip) = openFrom(socks', ip)
       /\ nextSock' = nextSock + 1 =>
             LET c == socks'[nextSock]
                 free == \A ip \in IPs : ipSize(connsByIP, ip) < MAX_PER_IP
             IN /\ c.reason \in capReasons =>
                      /\ connsByIP' = connsByIP
                      /\ ~c.welcomed /\ ~c.verified /\ ~c.listening
                /\ c.reason = "Invalid token" =>
                      /\ \A ip \in IPs : tableOf(connsByIP', ip) = tableOf(connsByIP, ip)
                      /\ ~c.welcomed /\ ~c.listening
                /\ c.reason = "Too many connections" => ~free
                /\ c.reason \notin capReasons => ipSize(connsByIP, c.ip) < MAX_PER_IP
                /\ (free /\ Cardinality(clients) + 1 < MAX_TOTAL) => c.reason \notin capReasons
                /\ c.reason = "none" =>
                      /\ c.state = "open" /\ c.welcomed
                      /\ tableOf(connsByIP', c.ip) = tableOf(connsByIP, c.ip) \cup {nextSock}
       /\ \A s \in Sockets :
             (socks[s].state \in {"open", "closing"} /\ socks'[s].state = "closed") =>
                 \A ip \in IPs : tableOf(connsByIP', ip) = tableOf(connsByIP, ip) \ {s}
      ]_vars

\* a source at its cap had an attempt rejected; one of its connections has
\* closed since, and a later attempt from it is admitted and holds the slot
C38_Witness ==
    \E q, r, t \in Sockets :
        /\ q < r /\ r < t
        /\ socks[q].state = "closed"
        /\ socks[r].reason = "Too many connections"
        /\ socks[t].state = "open" /\ socks[t].welcomed
        /\ t \in tableOf(connsByIP, socks[t].ip)
        /\ ipSize(connsByIP, socks[t].ip) = MAX_PER_IP

(***************************************************************************)
(* Part XIII, properties.                                                  *)
(***************************************************************************)
\* the step is a request that committed and during whose broadcast() the
\* send to one open connection failed
sendFailed == seq' > seq /\ failed' # 0

\* C34: when the send to one local connection fails during broadcast(),
\* every other open local connection is still sent the messages, they are
\* still published on the channel, no connection is closed, and the
\* originator of the committed mutation is sent no error.
C34_SendFailureIsIsolated ==
    [][sendFailed =>
          /\ \A c \in SendConns \ {failed'} :
                peerState[c] = "open" => sentTo'[c] = <<"pixel", "status">>
          /\ pubs' = <<"pixel", "status">>
          /\ peerState' = peerState
          /\ reply'.type # "error"
      ]_vars

(***************************************************************************)
(* Part XIV, properties.                                                   *)
(***************************************************************************)
\* no message is in flight between the instances (a transaction is one step)
quiescent == sibInbox = <<>>

\* C31: once the two instances are quiescent, B's cache is the pixels table:
\* B.getPixel(x, y) returns the row of every occupied cell and null for an
\* empty one, B.getAllPixels() has one entry per row, and B.getPixelCount()
\* is the number of rows.
C31_SiblingCacheFollows ==
    quiescent =>
        /\ \A r \in pixels : getPixel(sibPixels, r.x, r.y) = r
        /\ \A cell \in SibCells :
              (\A r \in pixels : ~(r.x = cell.x /\ r.y = cell.y))
                  => getPixel(sibPixels, cell.x, cell.y) = NoPixel
        /\ Len(getAllPixels(sibPixels)) = Cardinality(pixels)
        /\ sibCount = Cardinality(pixels)

====
